---- MODULE Spec2Model ----
(***************************************************************************)
(* Device monitoring system: the polling worker (type schedulers and the   *)
(* retry engine), the lease-claim query of the repository and the device   *)
(* listing query, modelled over a discrete clock.                          *)
(*                                                                         *)
(* A nullable column or Go pointer is a sequence: <<>> is NULL / nil and   *)
(* <<v>> is a pointer to v.  SQL conditions are evaluated in three-valued  *)
(* logic ("T", "F", "U"); a WHERE clause keeps a row only on "T".          *)
(***************************************************************************)
EXTENDS Integers, Sequences, FiniteSets, TLC

VARIABLES now, devices, polling_history, tasks, sched, cancelled, returned, leases, listing, dbFailures,
          diagnostics, device_types, worker, monitor, grpcMonitor

vars == <<now, devices, polling_history, tasks, sched, cancelled, returned, leases, listing, dbFailures,
          diagnostics, device_types, worker, monitor, grpcMonitor>>

----------------------------------------------------------------------------
(* Bounds of the model *)

NumDevices == 2
NumProcs == 2
MaxTasks == 2
MaxPolls == 2
MaxAttempts == 3
MaxClaims == 2
MaxAdvance == 1
MaxDbFailures == 1
MaxRetryDbFailures == 2

(* Polling configuration, in clock units *)

Interval == 2
BatchSize == 1
BaseDelay == 1
Factor == 2
MaxDelay == 3
defaultDevicePollingOutdateGap == 4

(* The clock value at which the model starts; rows seeded with a time of 0 *)
(* are older than every threshold.                                         *)
Now0 == defaultDevicePollingOutdateGap + Interval

Devices == 1..NumDevices
Procs == 1..NumProcs
TaskIds == 1..MaxTasks

Router == "router"
Camera == "camera"
DeviceTypes == {Router, Camera}

REST == "rest"
GRPC == "grpc"

PollingDone == "done"
PollingInProgress == "in_progress"
PollingCancelled == "cancelled"

PollSucceed == "succeed"
PollFailed == "failed"

Nil == <<>>
ToPtr(v) == <<v>>
IsNil(p) == p = <<>>
Deref(p) == p[1]

Min(a, b) == IF a < b THEN a ELSE b

----------------------------------------------------------------------------
(* SQL three-valued logic *)

And3(a, b) == IF a = "F" \/ b = "F" THEN "F" ELSE IF a = "U" \/ b = "U" THEN "U" ELSE "T"
Or3(a, b) == IF a = "T" \/ b = "T" THEN "T" ELSE IF a = "U" \/ b = "U" THEN "U" ELSE "F"
IsNull3(p) == IF IsNil(p) THEN "T" ELSE "F"
Lt3(p, v) == IF IsNil(p) THEN "U" ELSE IF Deref(p) < v THEN "T" ELSE "F"
Eq3(p, v) == IF IsNil(p) THEN "U" ELSE IF Deref(p) = v THEN "T" ELSE "F"
Ne3(p, v) == IF IsNil(p) THEN "U" ELSE IF Deref(p) # v THEN "T" ELSE "F"

----------------------------------------------------------------------------
(* Static device attributes: the protocols column never changes after     *)
(* admission, so it is a function of the device id.                        *)

ProtocolsOf(d) == IF d % 3 = 1 THEN <<REST, GRPC>> ELSE IF d % 3 = 2 THEN <<"http", GRPC>> ELSE <<"http">>

InitTypeOf(d) == IF d % 3 = 0 THEN Camera ELSE Router

(* The device_types table: the types of the registered devices. *)
RegisteredTypes == {InitTypeOf(d) : d \in Devices}

----------------------------------------------------------------------------
(* DevicePollingParameter.validate: the error cases, and the default of   *)
(* OutdatedPeriod.                                                         *)

OutdatedPeriodOf(param) == IF IsNil(param.OutdatedPeriod) THEN defaultDevicePollingOutdateGap ELSE Deref(param.OutdatedPeriod)

(* A variant that does not look at OutdatedPeriod *)
validate_SkipsOutdatedPeriod(param) == param.DeviceType # "" /\ param.Interval > 0 /\ param.Limit > 0

validate(param) == param.DeviceType # "" /\ param.Interval > 0 /\ param.Limit > 0 /\ OutdatedPeriodOf(param) > 0

(* Variants of the WHERE clause with one condition changed *)
ClaimWhere_IgnoresDeleted(row, param, t) ==
  LET recent_checkpoint == t - param.Interval
      remote_checkpoint == t - OutdatedPeriodOf(param)
  IN And3(Eq3(ToPtr(row.device_type), param.DeviceType),
          Or3(Or3(And3(Or3(IsNull3(row.polling_status), Ne3(row.polling_status, PollingInProgress)),
                       Or3(IsNull3(row.last_checked_at), Lt3(row.last_checked_at, recent_checkpoint))),
                  Lt3(row.last_checked_at, remote_checkpoint)),
              And3(IsNull3(row.last_checked_at), Lt3(ToPtr(row.created_at), remote_checkpoint))))

ClaimWhere_IgnoresStatus(row, param, t) ==
  LET recent_checkpoint == t - param.Interval
      remote_checkpoint == t - OutdatedPeriodOf(param)
  IN And3(And3(IsNull3(row.deleted_at), Eq3(ToPtr(row.device_type), param.DeviceType)),
          Or3(Or3(Or3(IsNull3(row.last_checked_at), Lt3(row.last_checked_at, recent_checkpoint)),
                  Lt3(row.last_checked_at, remote_checkpoint)),
              And3(IsNull3(row.last_checked_at), Lt3(ToPtr(row.created_at), remote_checkpoint))))

ClaimWhere_NoStaleLease(row, param, t) ==
  LET recent_checkpoint == t - param.Interval
      remote_checkpoint == t - OutdatedPeriodOf(param)
  IN And3(And3(IsNull3(row.deleted_at), Eq3(ToPtr(row.device_type), param.DeviceType)),
          Or3(And3(Or3(IsNull3(row.polling_status), Ne3(row.polling_status, PollingInProgress)),
                   Or3(IsNull3(row.last_checked_at), Lt3(row.last_checked_at, recent_checkpoint))),
              And3(IsNull3(row.last_checked_at), Lt3(ToPtr(row.created_at), remote_checkpoint))))

(* The WHERE clause of the inner select of the claim statement. *)
ClaimWhere(row, param, t) ==
  LET recent_checkpoint == t - param.Interval
      remote_checkpoint == t - OutdatedPeriodOf(param)
  IN And3(And3(IsNull3(row.deleted_at), Eq3(ToPtr(row.device_type), param.DeviceType)),
          Or3(Or3(And3(Or3(IsNull3(row.polling_status), Ne3(row.polling_status, PollingInProgress)),
                       Or3(IsNull3(row.last_checked_at), Lt3(row.last_checked_at, recent_checkpoint))),
                  Lt3(row.last_checked_at, remote_checkpoint)),
              And3(IsNull3(row.last_checked_at), Lt3(ToPtr(row.created_at), remote_checkpoint))))

ClaimCandidates(store, param, t) == {d \in DOMAIN store : ClaimWhere(store[d], param, t) = "T"}

(* "order by last_checked_at asc" on PostgreSQL: ascending order puts NULL *)
(* after every non-null value; rows with equal keys come in any order.     *)
OrderedBefore(a, b) ==
  IF IsNil(a.last_checked_at) THEN FALSE
  ELSE IF IsNil(b.last_checked_at) THEN TRUE
  ELSE Deref(a.last_checked_at) < Deref(b.last_checked_at)

(* The sets of ids the inner select can produce: the first "limit" rows   *)
(* of the candidates in that order.                                        *)
ClaimSelections(store, param, t) ==
  LET cand == ClaimCandidates(store, param, t)
      n == Min(param.Limit, Cardinality(cand))
  IN {S \in SUBSET cand : /\ Cardinality(S) = n
                          /\ \A s \in S : \A m \in cand \ S : ~OrderedBefore(store[m], store[s])}

(* A variant of the outer update that also stamps the selected rows *)
ClaimUpdate_StampsCheckedAt(store, S) ==
  [d \in DOMAIN store |-> IF d \in S THEN [store[d] EXCEPT !.polling_status = ToPtr(PollingInProgress),
                                                           !.last_checked_at = ToPtr(now)]
                          ELSE store[d]]

(* The outer update: the selected rows get polling_status = in_progress.  *)
ClaimUpdate(store, S) ==
  [d \in DOMAIN store |-> IF d \in S THEN [store[d] EXCEPT !.polling_status = ToPtr(PollingInProgress)] ELSE store[d]]

NoClaim == [seq |-> 0, err |-> FALSE, param |-> Nil, at |-> 0, ids |-> {}, rows |-> <<>>, before |-> <<>>]

(* Repo.GetDevicesByPollingParameter: one atomic statement.  "returned"    *)
(* is what the caller receives (the RETURNING rows) with the call's parameters,  *)
(* the clock and the table as it was before the statement.                 *)
GetDevicesByPollingParameter(param, S) ==
  IF ~validate(param)
  THEN /\ S = {}
       /\ returned' = [seq |-> returned.seq + 1, err |-> TRUE, param |-> ToPtr(param), at |-> now,
                       ids |-> {}, rows |-> <<>>, before |-> devices]
       /\ UNCHANGED devices
  ELSE /\ S \in ClaimSelections(devices, param, now)
       /\ devices' = ClaimUpdate(devices, S)
       /\ returned' = [seq |-> returned.seq + 1, err |-> FALSE, param |-> ToPtr(param), at |-> now,
                       ids |-> S, rows |-> [d \in S |-> devices'[d]], before |-> devices]

----------------------------------------------------------------------------
(* Repo.GetDevicesByPage.  A condition is "" (none), an atom, or two atoms *)
(* joined by "or"; an atom is "device_type = 't'" or "1=1".                *)

TypeAtom(t) == [kind |-> "type", device_type |-> t]
TrueAtom == [kind |-> "true", device_type |-> ""]
Atoms == {TypeAtom(t) : t \in DeviceTypes} \cup {TrueAtom}
NoCondition == [kind |-> "none"]
OrCondition(a, b) == [kind |-> "or", left |-> a, right |-> b]
AtomCondition(a) == [kind |-> "atom", atom |-> a]

AtomHolds(a, row) == IF a.kind = "type" THEN row.device_type = a.device_type ELSE TRUE

(* The count query is the text "... where deleted_at is null" followed by *)
(* " and " and the condition text: AND binds tighter than OR.              *)
CountWhere(row, condition) ==
  IF condition.kind = "none" THEN IsNil(row.deleted_at)
  ELSE IF condition.kind = "atom" THEN IsNil(row.deleted_at) /\ AtomHolds(condition.atom, row)
  ELSE (IsNil(row.deleted_at) /\ AtomHolds(condition.left, row)) \/ AtomHolds(condition.right, row)

(* The row query is built with Where(condition).Where("deleted_at is      *)
(* null"): the two conditions are conjoined as units.                      *)
PageWhere(row, condition) ==
  IF condition.kind = "none" THEN IsNil(row.deleted_at)
  ELSE IF condition.kind = "atom" THEN AtomHolds(condition.atom, row) /\ IsNil(row.deleted_at)
  ELSE (AtomHolds(condition.left, row) \/ AtomHolds(condition.right, row)) /\ IsNil(row.deleted_at)

RECURSIVE SortedIds(_)
SortedIds(S) ==
  IF S = {} THEN <<>>
  ELSE LET m == CHOOSE x \in S : \A y \in S : x <= y IN <<m>> \o SortedIds(S \ {m})

(* Offset(page * size).Limit(size).Order("id asc") *)
PageOf(ids, page, size) ==
  LET all == SortedIds(ids)
      from == page * size + 1
      to == Min(Len(all), page * size + size)
  IN IF from > Len(all) THEN <<>> ELSE SubSeq(all, from, to)

NoListing == [seq |-> 0, err |-> FALSE, condition |-> NoCondition, ids |-> <<>>, total |-> 0]

GetDevicesByPage(page, size, condition) ==
  IF page < 0 \/ size <= 0
  THEN listing' = [seq |-> listing.seq + 1, err |-> TRUE, condition |-> condition, ids |-> <<>>, total |-> 0]
  ELSE listing' = [seq |-> listing.seq + 1, err |-> FALSE, condition |-> condition,
                   ids |-> PageOf({d \in Devices : PageWhere(devices[d], condition)}, page, size),
                   total |-> Cardinality({d \in Devices : CountWhere(devices[d], condition)})]

----------------------------------------------------------------------------
(* Polling configurations and their validation.  The durations of a       *)
(* PollingConfig are in milliseconds and the backoff factor in tenths; a   *)
(* nil Backoff is <<>>.                                                    *)

PollingConfig(interval, timeout, batchSize, backoff) ==
  [Interval |-> interval, Timeout |-> timeout, BatchSize |-> batchSize, Backoff |-> backoff]

BackoffConfig(baseDelay, factor, maxDelay) == [BaseDelay |-> baseDelay, Factor |-> factor, MaxDelay |-> maxDelay]

(* validation.Min: an empty (zero) value is not checked against the       *)
(* threshold; validation.Required: the pointer is not nil.                 *)
IsEmpty(value) == value = 0

ValidationMin(value, threshold) == IsEmpty(value) \/ value >= threshold

Required(ptr) == ~IsNil(ptr)

(* PollingConfig.Validate: TRUE when it returns nil *)
Validate(pc) ==
  IF ~(/\ ValidationMin(pc.Interval, 1)
       /\ ValidationMin(pc.Timeout, 10)
       /\ ValidationMin(pc.BatchSize, 1)
       /\ Required(pc.Backoff))
  THEN FALSE
  ELSE LET cfg == Deref(pc.Backoff)
       IN IF ~(/\ ValidationMin(cfg.BaseDelay, 10)
               /\ ValidationMin(cfg.Factor, 10)
               /\ ValidationMin(cfg.MaxDelay, 100))
          THEN FALSE
          ELSE ~(cfg.BaseDelay >= cfg.MaxDelay)

SupervisedTypes == DeviceTypes \cup {"sensor"}

NoConfig == [err |-> TRUE, cfg |-> PollingConfig(0, 0, 0, Nil)]

(* DefaultPollingStrategy.GetPollingConfigByDeviceType, the whole config *)
DefaultPollingStrategy(deviceType) ==
  IF deviceType = Router
  THEN [err |-> FALSE, cfg |-> PollingConfig(30000, 10000, 100, ToPtr(BackoffConfig(1000, 20, 120000)))]
  ELSE IF deviceType = Camera
  THEN [err |-> FALSE, cfg |-> PollingConfig(10000, 3000, 100, ToPtr(BackoffConfig(500, 20, 60000)))]
  ELSE NoConfig

(* testPollingStrategy.GetPollingConfigByDeviceType with a configMap of   *)
(* one entry                                                               *)
testPollingStrategy(deviceType, cfg) == [t \in SupervisedTypes |-> IF t = deviceType THEN [err |-> FALSE, cfg |-> cfg] ELSE NoConfig]

(* A PollingWorker: its strategy, where its Start is, the error Start     *)
(* returned, the types whose schedulers it launched and how many go        *)
(* statements it ran for each; for the Start that reads the types again at *)
(* every tick, its deviceTypeMap and what each read returned.              *)
NoError == [kind |-> "", device_type |-> ""]

NewPollingWorker(psy) ==
  [psy |-> psy, pc |-> "new", err |-> NoError, started |-> {}, launches |-> [t \in SupervisedTypes |-> 0],
   deviceTypeMap |-> {}, reads |-> <<>>]

StartedWorker ==
  [psy |-> [t \in SupervisedTypes |-> DefaultPollingStrategy(t)], pc |-> "waiting", err |-> NoError,
   started |-> RegisteredTypes, launches |-> [t \in SupervisedTypes |-> IF t \in RegisteredTypes THEN 1 ELSE 0],
   deviceTypeMap |-> {}, reads |-> <<>>]

----------------------------------------------------------------------------
(* Values of the variables before anything has run *)

NoDiagnostics == [seq |-> 0, device_id |-> 0, at |-> 0, size |-> 0, result |-> Nil]

FreeTask == [pc |-> "free", proc |-> 0, device_id |-> 0, device |-> Nil, failCount |-> 0, delay |-> 0,
             sleep |-> 0, wake |-> 0, outcome |-> "", history |-> Nil,
             polls |-> <<>>, hcalls |-> <<>>, ucalls |-> <<>>]

NoLease == [at |-> Nil, persisted |-> FALSE]

(* NewGrpcDeviceMonitor: an empty client cache and a free lock.  A caller *)
(* of getGrpcClient is idle (pc ""), or at a step of the function with the *)
(* target it asked for and what its lookup found; "got" is the client its  *)
(* last call returned, "created" the number of clients NewClient made for  *)
(* the target.                                                             *)
NumCallers == 3
Callers == 1..NumCallers
Targets == {"host1:50051", "host2:50051"}

IdleCaller == [pc |-> "", target |-> "", gw |-> Nil, got |-> Nil]

NewGrpcDeviceMonitor ==
  [clientCache |-> [target \in Targets |-> Nil],
   rwLock |-> [readers |-> {}, writer |-> 0],
   created |-> [target \in Targets |-> 0],
   callers |-> [c \in Callers |-> IdleCaller]]

(* The latest call of a transport adapter: what it was given, what the    *)
(* device sent back, and the two values it returned.                       *)
NilError == [type |-> "nil"]
NoCall == [transport |-> "", device |-> Nil, req |-> Nil, reply |-> Nil, resp |-> Nil, err |-> NilError]

(* The polling_history table that goes with a devices table: a device     *)
(* that is done was polled with success when it was last checked.          *)
RECURSIVE SeedHistory(_, _)
SeedHistory(store, n) ==
  IF n = 0 THEN <<>>
  ELSE IF store[n].polling_status = ToPtr(PollingDone) /\ ~IsNil(store[n].last_checked_at)
       THEN Append(SeedHistory(store, n - 1),
                   [device_id |-> n, data |-> ToPtr("data0"), polling_result |-> PollSucceed,
                    failure_reason |-> Nil, created_at |-> Deref(store[n].last_checked_at)])
       ELSE SeedHistory(store, n - 1)

Idle ==
  /\ polling_history = SeedHistory(devices, NumDevices)
  /\ tasks = [i \in TaskIds |-> FreeTask]
  /\ sched = [p \in Procs |-> [t \in RegisteredTypes |-> [running |-> TRUE, nextTick |-> Now0]]]
  /\ cancelled = [p \in Procs |-> FALSE]
  /\ returned = NoClaim
  /\ leases = [d \in Devices |-> NoLease]
  /\ listing = NoListing
  /\ dbFailures = 0
  /\ diagnostics = NoDiagnostics
  /\ device_types = RegisteredTypes
  /\ worker = [p \in Procs |-> StartedWorker]
  /\ monitor = NoCall
  /\ grpcMonitor = NewGrpcDeviceMonitor

----------------------------------------------------------------------------
(* The repository queries on a seeded table: every content of the devices *)
(* table over a small set of column values, queried once.                  *)

SeedTimes == {Now0 - defaultDevicePollingOutdateGap - 1, Now0 - defaultDevicePollingOutdateGap, Now0 - Interval}

(* A device is checked only after it was created, and created_at is read *)
(* by the claim statement only where last_checked_at is NULL.              *)
SeedRows ==
  {row \in [device_type : DeviceTypes,
            polling_status : {Nil, ToPtr(PollingInProgress), ToPtr(PollingDone)},
            created_at : {Now0 - defaultDevicePollingOutdateGap - 1, Now0 - defaultDevicePollingOutdateGap},
            last_checked_at : {Nil} \cup {ToPtr(t) : t \in SeedTimes},
            deleted_at : {Nil, ToPtr(Now0 - 1)}] :
     IsNil(row.last_checked_at) \/ row.created_at = Now0 - defaultDevicePollingOutdateGap - 1}

InitStore ==
  /\ now = Now0
  /\ devices \in [Devices -> SeedRows]
  /\ Idle

SeedLimits == {0, 1, 2}

SeedParams ==
  [DeviceType : DeviceTypes, Interval : {Interval}, OutdatedPeriod : {Nil}, Limit : SeedLimits]

SeedConditions ==
  {NoCondition} \cup {AtomCondition(a) : a \in Atoms}
    \cup {OrCondition(TypeAtom(Router), TypeAtom(Camera)), OrCondition(TypeAtom(Router), TrueAtom)}

ClaimSeeded ==
  /\ returned.seq = 0 /\ listing.seq = 0
  /\ \E param \in SeedParams : \E S \in SUBSET Devices : GetDevicesByPollingParameter(param, S)
  /\ UNCHANGED <<now, polling_history, tasks, sched, cancelled, leases, listing, dbFailures, diagnostics, device_types, worker, monitor, grpcMonitor>>

ListSeeded ==
  /\ returned.seq = 0 /\ listing.seq = 0
  /\ \E page \in {0, 1} : \E size \in {1, 2} : \E condition \in SeedConditions :
       GetDevicesByPage(page, size, condition)
  /\ UNCHANGED <<now, devices, polling_history, tasks, sched, cancelled, returned, leases, dbFailures, diagnostics, device_types, worker, monitor, grpcMonitor>>

NextStore == ClaimSeeded \/ ListSeeded

SpecStore == InitStore /\ [][NextStore]_vars

----------------------------------------------------------------------------
(* The polling worker.  "tasks" holds the invocations of                   *)
(* pollDeviceWithBackoff; each has its own copy of the claimed device row. *)

PollDeviceResponses == {"data1"}
PollErrors == {"fake error"}

(* PollingWorker.pollDevice: the monitor of the first supported protocol, *)
(* or none.                                                                *)
RECURSIVE InnerMonitor(_, _)
InnerMonitor(protocols, i) ==
  IF i > Len(protocols) THEN Nil
  ELSE IF protocols[i] = REST THEN ToPtr(REST)
  ELSE IF protocols[i] = GRPC THEN ToPtr(GRPC)
  ELSE InnerMonitor(protocols, i + 1)

NewRetry(p, d, row) ==
  [FreeTask EXCEPT !.pc = "poll", !.proc = p, !.device_id = d, !.device = ToPtr(row), !.failCount = 0,
                   !.delay = BaseDelay]

FreeTasks == {i \in TaskIds : tasks[i].pc = "free"}
Rank(x, S) == Cardinality({y \in S : y < x})

(* A variant in which a tick waits for the retry tasks started before it *)
Dispatch_AwaitsTasks(p, S, rows) ==
  LET pollable == {d \in S : ~IsNil(InnerMonitor(ProtocolsOf(d), 1))}
  IN /\ \A i \in TaskIds : tasks[i].pc \in {"free", "returned"}
     /\ Cardinality(pollable) <= Cardinality(FreeTasks)
     /\ tasks' = [i \in TaskIds |->
                    IF i \in FreeTasks /\ \E d \in pollable : Rank(d, pollable) = Rank(i, FreeTasks)
                    THEN LET d == CHOOSE d \in pollable : Rank(d, pollable) = Rank(i, FreeTasks)
                         IN NewRetry(p, d, rows[d])
                    ELSE tasks[i]]

(* The go statements of one tick: every returned device with a supported  *)
(* protocol gets a retry task.                                             *)
Dispatch(p, S, rows) ==
  LET pollable == {d \in S : ~IsNil(InnerMonitor(ProtocolsOf(d), 1))}
  IN /\ Cardinality(pollable) <= Cardinality(FreeTasks)
     /\ tasks' = [i \in TaskIds |->
                    IF i \in FreeTasks /\ \E d \in pollable : Rank(d, pollable) = Rank(i, FreeTasks)
                    THEN LET d == CHOOSE d \in pollable : Rank(d, pollable) = Rank(i, FreeTasks)
                         IN NewRetry(p, d, rows[d])
                    ELSE tasks[i]]

(* PollingWorker.startPollingDevicesByType, the ticker case. *)
Tick(p, t) ==
  /\ sched[p][t].running
  /\ now >= sched[p][t].nextTick
  /\ returned.seq < MaxClaims
  /\ \E S \in SUBSET DOMAIN devices :
       /\ GetDevicesByPollingParameter([DeviceType |-> t, Interval |-> Interval, OutdatedPeriod |-> Nil,
                                        Limit |-> BatchSize], S)
       /\ Dispatch(p, S, returned'.rows)
       /\ leases' = [d \in DOMAIN leases |-> IF d \in S THEN [at |-> ToPtr(now), persisted |-> FALSE] ELSE leases[d]]
  /\ sched' = [sched EXCEPT ![p][t].nextTick = now + Interval]
  /\ UNCHANGED <<now, polling_history, cancelled, listing, dbFailures, diagnostics, device_types, worker, monitor, grpcMonitor>>

(* PollingWorker.startPollingDevicesByType, the ctx.Done case. *)
StopPolling(p, t) ==
  /\ sched[p][t].running
  /\ cancelled[p]
  /\ sched' = [sched EXCEPT ![p][t].running = FALSE]
  /\ UNCHANGED <<now, devices, polling_history, tasks, cancelled, returned, leases, listing, dbFailures, diagnostics, device_types, worker, monitor, grpcMonitor>>

(* The worker's context is cancelled. *)
Cancel(p) ==
  /\ ~cancelled[p]
  /\ cancelled' = [cancelled EXCEPT ![p] = TRUE]
  /\ UNCHANGED <<now, devices, polling_history, tasks, sched, returned, leases, listing, dbFailures, diagnostics, device_types, worker, monitor, grpcMonitor>>

(* pollDeviceWithBackoff: one call of the monitor and the bookkeeping up  *)
(* to the history row being built.  A task at "poll" has its call of the   *)
(* monitor under way.                                                      *)
FailedHistory(task, msg) ==
  [device_id |-> task.device_id, data |-> Nil, polling_result |-> PollFailed,
   failure_reason |-> ToPtr([error |-> msg, count |-> task.failCount + 1])]

SucceedHistory(task, resp) ==
  [device_id |-> task.device_id, data |-> ToPtr(resp), polling_result |-> PollSucceed, failure_reason |-> Nil]

(* Variants of the bookkeeping after a monitor call *)
Polled_StatusUntouched(task, outcome, resp, msg) ==
  LET checked == [Deref(task.device) EXCEPT !.last_checked_at = ToPtr(now)]
  IN [task EXCEPT !.pc = "hist", !.outcome = outcome, !.device = ToPtr(checked),
                  !.history = IF outcome = "err" THEN ToPtr(FailedHistory(task, msg))
                              ELSE IF outcome = "ok" THEN ToPtr(SucceedHistory(task, resp)) ELSE Nil,
                  !.polls = Append(@, [at |-> now, outcome |-> outcome,
                                       resp |-> IF outcome = "err" THEN msg ELSE resp])]

Polled_AlwaysFailedRow(task, outcome, resp, msg) ==
  LET checked == [Deref(task.device) EXCEPT !.last_checked_at = ToPtr(now)]
  IN [task EXCEPT !.pc = "hist", !.outcome = outcome,
                  !.device = ToPtr(IF outcome = "ok" THEN [checked EXCEPT !.polling_status = ToPtr(PollingDone)]
                                   ELSE checked),
                  !.history = IF outcome = "nil" THEN Nil ELSE ToPtr(FailedHistory(task, msg)),
                  !.polls = Append(@, [at |-> now, outcome |-> outcome,
                                       resp |-> IF outcome = "err" THEN msg ELSE resp])]

Polled_SkipsHistory(task, outcome, resp, msg) ==
  LET checked == [Deref(task.device) EXCEPT !.last_checked_at = ToPtr(now)]
  IN [task EXCEPT !.pc = "upd", !.outcome = outcome,
                  !.device = ToPtr(IF outcome = "ok" THEN [checked EXCEPT !.polling_status = ToPtr(PollingDone)]
                                   ELSE checked),
                  !.history = IF outcome = "err" THEN ToPtr(FailedHistory(task, msg))
                              ELSE IF outcome = "ok" THEN ToPtr(SucceedHistory(task, resp)) ELSE Nil,
                  !.polls = Append(@, [at |-> now, outcome |-> outcome,
                                       resp |-> IF outcome = "err" THEN msg ELSE resp])]

Polled_NoRowOnFailure(task, outcome, resp, msg) ==
  LET checked == [Deref(task.device) EXCEPT !.last_checked_at = ToPtr(now)]
  IN [task EXCEPT !.pc = "hist", !.outcome = outcome,
                  !.device = ToPtr(IF outcome = "ok" THEN [checked EXCEPT !.polling_status = ToPtr(PollingDone)]
                                   ELSE checked),
                  !.history = IF outcome = "ok" THEN ToPtr(SucceedHistory(task, resp)) ELSE Nil,
                  !.polls = Append(@, [at |-> now, outcome |-> outcome,
                                       resp |-> IF outcome = "err" THEN msg ELSE resp])]

Polled(task, outcome, resp, msg) ==
  LET checked == [Deref(task.device) EXCEPT !.last_checked_at = ToPtr(now)]
  IN IF outcome = "err"
     THEN [task EXCEPT !.pc = "hist", !.outcome = outcome, !.device = ToPtr(checked),
                       !.history = ToPtr(FailedHistory(task, msg)),
                       !.polls = Append(@, [at |-> now, outcome |-> outcome, resp |-> msg])]
     ELSE IF outcome = "ok"
     THEN [task EXCEPT !.pc = "hist", !.outcome = outcome,
                       !.device = ToPtr([checked EXCEPT !.polling_status = ToPtr(PollingDone)]),
                       !.history = ToPtr(SucceedHistory(task, resp)),
                       !.polls = Append(@, [at |-> now, outcome |-> outcome, resp |-> resp])]
     ELSE [task EXCEPT !.pc = "hist", !.outcome = outcome, !.device = ToPtr(checked),
                       !.history = Nil,
                       !.polls = Append(@, [at |-> now, outcome |-> outcome, resp |-> ""])]

RECURSIVE PollsUpTo(_)
PollsUpTo(i) == IF i = 0 THEN 0 ELSE Len(tasks[i].polls) + PollsUpTo(i - 1)

(* The number of monitor calls made so far, which the model bounds. *)
TotalPolls == PollsUpTo(MaxTasks)

PollDevice(i, budget) ==
  /\ tasks[i].pc = "poll"
  /\ TotalPolls < budget
  /\ \/ \E resp \in PollDeviceResponses : tasks' = [tasks EXCEPT ![i] = Polled(@, "ok", resp, "")]
     \/ \E msg \in PollErrors : tasks' = [tasks EXCEPT ![i] = Polled(@, "err", "", msg)]
     \/ tasks' = [tasks EXCEPT ![i] = Polled(@, "nil", "", "")]
  /\ UNCHANGED <<now, devices, polling_history, sched, cancelled, returned, leases, listing, dbFailures, diagnostics, device_types, worker, monitor, grpcMonitor>>

(* A write to the database succeeds or fails; the number of failed writes *)
(* in one run of the model is bounded by the budget of the specification.  *)
DbOutcome(dbOk, budget) ==
  IF dbOk THEN UNCHANGED dbFailures
  ELSE dbFailures < budget /\ dbFailures' = dbFailures + 1

(* Repo.CreatePollingHistory as called by the retry engine: a nil row is  *)
(* rejected, and the insert itself can fail.                               *)
CreatePollingHistory(i, budget) ==
  /\ tasks[i].pc = "hist"
  /\ \E dbOk \in BOOLEAN :
       LET history == tasks[i].history
           saved == dbOk /\ ~IsNil(history)
       IN /\ (IsNil(history) => ~dbOk)
          /\ DbOutcome(dbOk \/ IsNil(history), budget)
          /\ polling_history' =
               IF saved
               THEN Append(polling_history, [device_id |-> Deref(history).device_id,
                                             data |-> Deref(history).data,
                                             polling_result |-> Deref(history).polling_result,
                                             failure_reason |-> Deref(history).failure_reason,
                                             created_at |-> now])
               ELSE polling_history
          /\ tasks' = [tasks EXCEPT ![i].pc = "upd",
                                    ![i].hcalls = Append(@, [history |-> history, ok |-> saved])]
          /\ leases' = IF saved THEN [leases EXCEPT ![tasks[i].device_id].persisted = TRUE] ELSE leases
  /\ UNCHANGED <<now, devices, sched, cancelled, returned, listing, diagnostics, device_types, worker, monitor, grpcMonitor>>

(* The backoff step after a failed attempt. *)
NextDelay(delay) == IF delay < MaxDelay THEN Min(delay * Factor, MaxDelay) ELSE MaxDelay

(* A variant in which the loop gives up after the second failed attempt *)
AfterAttempt_GivesUp(task, sleep) ==
  IF task.outcome # "err" \/ task.failCount >= 1
  THEN [task EXCEPT !.pc = "returned"]
  ELSE [task EXCEPT !.pc = "sleep", !.failCount = @ + 1, !.delay = NextDelay(@), !.sleep = sleep,
                    !.wake = now + sleep]

(* A variant in which a failed write of the device row ends the loop *)
AfterAttempt_AbortsOnFailedWrite(task, sleep) ==
  IF task.outcome # "err" \/ ~task.ucalls[Len(task.ucalls)].ok
  THEN [task EXCEPT !.pc = "returned"]
  ELSE [task EXCEPT !.pc = "sleep", !.failCount = @ + 1, !.delay = NextDelay(@), !.sleep = sleep,
                    !.wake = now + sleep]

(* Where the loop goes after the two writes of an attempt. *)
AfterAttempt(task, sleep) ==
  IF task.outcome # "err"
  THEN [task EXCEPT !.pc = "returned"]
  ELSE [task EXCEPT !.pc = "sleep", !.failCount = @ + 1, !.delay = NextDelay(@), !.sleep = sleep,
                    !.wake = now + sleep]

(* What a call of UpdateDevice carried, and whether it succeeded. *)
UpdateCall(device, dbOk, step) ==
  [polling_status |-> Deref(device).polling_status, last_checked_at |-> Deref(device).last_checked_at,
   ok |-> dbOk, step |-> step]

(* Repo.UpdateDevice as called after an attempt: Save writes every column *)
(* of the task's copy of the row.  The rest of the loop body follows.      *)
UpdateDevice(i, budget) ==
  /\ tasks[i].pc = "upd"
  /\ \E dbOk \in BOOLEAN :
       /\ DbOutcome(dbOk, budget)
       /\ devices' = IF dbOk THEN [devices EXCEPT ![tasks[i].device_id] = Deref(tasks[i].device)] ELSE devices
       /\ leases' = IF dbOk THEN [leases EXCEPT ![tasks[i].device_id].persisted = TRUE] ELSE leases
       /\ \E sleep \in 0..(NextDelay(tasks[i].delay) - 1) :
            /\ (tasks[i].outcome # "err" => sleep = 0)
            /\ tasks' = [tasks EXCEPT ![i] =
                           AfterAttempt([@ EXCEPT !.ucalls = Append(@, UpdateCall(tasks[i].device, dbOk, "attempt"))],
                                        sleep)]
  /\ UNCHANGED <<now, polling_history, sched, cancelled, returned, listing, diagnostics, device_types, worker, monitor, grpcMonitor>>

(* The select after a failed attempt: the timer case. *)
Retry(i) ==
  /\ tasks[i].pc = "sleep"
  /\ now >= tasks[i].wake
  /\ tasks' = [tasks EXCEPT ![i].pc = "poll"]
  /\ UNCHANGED <<now, devices, polling_history, sched, cancelled, returned, leases, listing, dbFailures, diagnostics, device_types, worker, monitor, grpcMonitor>>

(* The select after a failed attempt: the ctx.Done case. *)
StopOnCancel(i, budget) ==
  /\ tasks[i].pc = "sleep"
  /\ cancelled[tasks[i].proc]
  /\ \E dbOk \in BOOLEAN :
       LET device == ToPtr([Deref(tasks[i].device) EXCEPT !.polling_status = ToPtr(PollingCancelled)])
       IN /\ DbOutcome(dbOk, budget)
          /\ devices' = IF dbOk THEN [devices EXCEPT ![tasks[i].device_id] = Deref(device)] ELSE devices
          /\ tasks' = [tasks EXCEPT ![i].pc = "returned", ![i].device = device,
                                    ![i].ucalls = Append(@, UpdateCall(device, dbOk, "cancel"))]
  /\ UNCHANGED <<now, polling_history, sched, cancelled, returned, leases, listing, diagnostics, device_types, worker, monitor, grpcMonitor>>

(* The clock *)
Advance ==
  /\ now < Now0 + MaxAdvance
  /\ now' = now + 1
  /\ UNCHANGED <<devices, polling_history, tasks, sched, cancelled, returned, leases, listing, dbFailures, diagnostics, device_types, worker, monitor, grpcMonitor>>

(* The devices table when the workers start.  An odd device is a lease    *)
(* left behind by a crashed worker or a device registered long ago and     *)
(* never polled; an even device is freshly registered or was polled more   *)
(* than an interval ago.                                                   *)
InitRows(d) ==
  IF d % 2 = 1
  THEN {[device_type |-> InitTypeOf(d), polling_status |-> ToPtr(PollingInProgress),
         created_at |-> Now0 - defaultDevicePollingOutdateGap - 1,
         last_checked_at |-> ToPtr(Now0 - defaultDevicePollingOutdateGap - 1), deleted_at |-> Nil],
        [device_type |-> InitTypeOf(d), polling_status |-> Nil,
         created_at |-> Now0 - defaultDevicePollingOutdateGap - 1, last_checked_at |-> Nil, deleted_at |-> Nil]}
  ELSE {[device_type |-> InitTypeOf(d), polling_status |-> Nil, created_at |-> Now0 - 1,
         last_checked_at |-> Nil, deleted_at |-> Nil],
        [device_type |-> InitTypeOf(d), polling_status |-> ToPtr(PollingDone),
         created_at |-> Now0 - defaultDevicePollingOutdateGap - 1,
         last_checked_at |-> ToPtr(Now0 - Interval - 1), deleted_at |-> Nil]}

Init ==
  /\ now = Now0
  /\ devices \in [Devices -> UNION {InitRows(d) : d \in Devices}]
  /\ \A d \in Devices : devices[d] \in InitRows(d)
  /\ Idle

Next ==
  \/ \E p \in Procs : \E t \in RegisteredTypes : Tick(p, t)
  \/ \E p \in Procs : \E t \in RegisteredTypes : StopPolling(p, t)
  \/ \E p \in Procs : Cancel(p)
  \/ \E i \in TaskIds : PollDevice(i, MaxPolls)
  \/ \E i \in TaskIds : CreatePollingHistory(i, MaxDbFailures)
  \/ \E i \in TaskIds : UpdateDevice(i, MaxDbFailures)
  \/ \E i \in TaskIds : Retry(i)
  \/ \E i \in TaskIds : StopOnCancel(i, MaxDbFailures)
  \/ Advance

Spec == Init /\ [][Next]_vars

----------------------------------------------------------------------------
(* One invocation of the retry engine on a claimed device, as the unit    *)
(* tests drive it: the device row is in_progress, never checked or last    *)
(* checked long ago.                                                       *)

ClaimedRows ==
  {[device_type |-> Router, polling_status |-> ToPtr(PollingInProgress),
    created_at |-> Now0 - defaultDevicePollingOutdateGap - 1, last_checked_at |-> lca, deleted_at |-> Nil] :
     lca \in {Nil, ToPtr(Now0 - Interval - 1)}}

InitRetry ==
  /\ now = Now0
  /\ devices \in [Devices -> ClaimedRows]
  /\ polling_history = <<>>
  /\ tasks = [i \in TaskIds |-> IF i = 1 THEN NewRetry(1, 1, devices[1]) ELSE FreeTask]
  /\ sched = [p \in Procs |-> [t \in RegisteredTypes |-> [running |-> TRUE, nextTick |-> Now0]]]
  /\ cancelled = [p \in Procs |-> FALSE]
  /\ returned = NoClaim
  /\ leases = [d \in Devices |-> NoLease]
  /\ listing = NoListing
  /\ dbFailures = 0
  /\ diagnostics = NoDiagnostics
  /\ device_types = RegisteredTypes
  /\ worker = [p \in Procs |-> StartedWorker]
  /\ monitor = NoCall
  /\ grpcMonitor = NewGrpcDeviceMonitor

NextRetry ==
  \/ \E i \in TaskIds : PollDevice(i, MaxAttempts)
  \/ \E i \in TaskIds : CreatePollingHistory(i, MaxRetryDbFailures)
  \/ \E i \in TaskIds : UpdateDevice(i, MaxRetryDbFailures)
  \/ \E i \in TaskIds : Retry(i)
  \/ \E i \in TaskIds : StopOnCancel(i, MaxRetryDbFailures)
  \/ Cancel(1)
  \/ Advance

SpecRetry == InitRetry /\ [][NextRetry]_vars

----------------------------------------------------------------------------
(* One RetryWrapperMonitor value used for several invocations in turn, as *)
(* the test suite does: task slot i + 1 holds the invocation that follows  *)
(* the one of slot i on the same value.  pollDeviceWithBackoff sets delay  *)
(* on entry and leaves the failCount field as it is.                       *)

Reinvoke(i) ==
  /\ i + 1 \in TaskIds
  /\ tasks[i].pc = "returned"
  /\ tasks[i + 1].pc = "free"
  /\ \E d \in Devices :
       tasks' = [tasks EXCEPT ![i + 1] = [NewRetry(tasks[i].proc, d, devices[d]) EXCEPT
                                           !.failCount = tasks[i].failCount]]
  /\ UNCHANGED <<now, devices, polling_history, sched, cancelled, returned, leases, listing, dbFailures, diagnostics, device_types, worker, monitor, grpcMonitor>>

NextReuse ==
  \/ NextRetry
  \/ \E i \in TaskIds : Reinvoke(i)

SpecReuse == InitRetry /\ [][NextReuse]_vars

----------------------------------------------------------------------------
(* The diagnostics of a device: GetDeviceDiagnostic reads the newest rows *)
(* of the device's polling history and applies its rules in order.  The    *)
(* payload of a history row stands for its hw/sw/fw/status/checksum        *)
(* columns.                                                                *)

Connected == "connected"
Disconnected == "disconnected"
Unknown == "unknown"
Connecting == "connecting"

CameraInterval == 1
numOfEvidences == 10
defaultHistoryCheckingSize == 20

(* DefaultPollingStrategy.GetPollingConfigByDeviceType, the interval *)
GetPollingConfigByDeviceType(deviceType) ==
  IF deviceType = Router THEN [err |-> FALSE, Interval |-> Interval]
  ELSE IF deviceType = Camera THEN [err |-> FALSE, Interval |-> CameraInterval]
  ELSE [err |-> TRUE, Interval |-> 0]

(* Sorting by created_at, newest first *)
RECURSIVE NewestFirst(_)
NewestFirst(rows) ==
  IF rows = <<>> THEN <<>>
  ELSE LET m == CHOOSE i \in DOMAIN rows : \A j \in DOMAIN rows : rows[j].created_at <= rows[i].created_at
           rest == [k \in 1..(Len(rows) - 1) |-> IF k < m THEN rows[k] ELSE rows[k + 1]]
       IN <<rows[m]>> \o NewestFirst(rest)

(* Repo.GetDevicePollingHistory: where device_id = ?, order by created_at *)
(* desc, limit.                                                            *)
GetDevicePollingHistory(deviceID, limit) ==
  LET all == NewestFirst(SelectSeq(polling_history, LAMBDA row : row.device_id = deviceID))
  IN SubSeq(all, 1, Min(limit, Len(all)))

FromPtr(p) == IF IsNil(p) THEN "" ELSE Deref(p)

(* Variants of the two predicates on the latest row *)
IsDeviceOutOfSync_TwentyIntervals(latest, cfg, t) == latest.created_at < t - 20 * cfg.Interval

IsDeviceOutOfSync(latest, cfg, t) == latest.created_at < t - 10 * cfg.Interval

IsDeviceAlive_IgnoresAge(latest, cfg, t) == latest.polling_result = PollSucceed

IsDeviceAlive(latest, cfg, t) ==
  latest.polling_result = PollSucceed /\ latest.created_at > t - 2 * cfg.Interval

IsDeviceDisconnected_LatestOnly(histories) ==
  /\ Len(histories) >= numOfEvidences
  /\ histories[1].polling_result = PollFailed

IsDeviceDisconnected(histories) ==
  /\ Len(histories) >= numOfEvidences
  /\ \A i \in 1..numOfEvidences : histories[i].polling_result = PollFailed

Verdict(deviceID, connectivity, lastCheckedAt, data) ==
  [err |-> FALSE, DeviceID |-> deviceID, Connectivity |-> connectivity, LastCheckedAt |-> lastCheckedAt,
   Data |-> data]

DiagnosticError == [err |-> TRUE, DeviceID |-> 0, Connectivity |-> "", LastCheckedAt |-> Nil, Data |-> ""]

GetDeviceDiagnostic(deviceID, device, historyCheckingSize, t) ==
  LET cfg == GetPollingConfigByDeviceType(device.device_type)
  IN IF cfg.err \/ cfg.Interval < 1 THEN DiagnosticError
     ELSE IF historyCheckingSize <= 0 THEN DiagnosticError
     ELSE LET history == NewestFirst(GetDevicePollingHistory(deviceID, historyCheckingSize))
          IN IF Len(history) = 0 THEN Verdict(deviceID, Unknown, Nil, "")
             ELSE LET latest == history[1]
                  IN IF IsDeviceOutOfSync(latest, cfg, t)
                     THEN Verdict(deviceID, Unknown, ToPtr(latest.created_at), "")
                     ELSE IF IsDeviceAlive(latest, cfg, t)
                     THEN Verdict(deviceID, Connected, ToPtr(latest.created_at), FromPtr(latest.data))
                     ELSE IF IsDeviceDisconnected(history)
                     THEN Verdict(deviceID, Disconnected, ToPtr(latest.created_at), "")
                     ELSE Verdict(deviceID, Connecting, ToPtr(latest.created_at), "")

(* The GET /devices/{id} handler's call, on the tables as they are. *)
Diagnose(d, size) ==
  /\ diagnostics.seq = 0
  /\ diagnostics' = [seq |-> diagnostics.seq + 1, device_id |-> d, at |-> now, size |-> size,
                     result |-> ToPtr(GetDeviceDiagnostic(d, devices[d], size, now))]
  /\ UNCHANGED <<now, devices, polling_history, tasks, sched, cancelled, returned, leases, listing, dbFailures, device_types, worker, monitor, grpcMonitor>>

(* Histories to diagnose: up to MaxHistory rows of device 1, one clock     *)
(* unit apart, the newest of an age around the thresholds of the rules;    *)
(* the rows that succeeded are the newest, the second newest, the oldest,  *)
(* all, all but the newest, or none.  Another device may have a fresh row. *)
MaxHistory == 11

DiagAges ==
  {0, 1} \cup UNION {{2 * iv - 1, 2 * iv, 2 * iv + 1, 10 * iv - 1, 10 * iv, 10 * iv + 1} :
                        iv \in {Interval, CameraInterval}}

DiagNow == 10 * Interval + MaxHistory + 1

SucceedSets(n) == {S \in {{}, {1}, {2}, {n}, 1..n, 2..n} : S \subseteq 1..n}

DiagHistory(n, S, age, t) ==
  [k \in 1..n |->
     LET i == n - k + 1
     IN [device_id |-> 1,
         data |-> IF i \in S THEN ToPtr(IF i = 1 THEN "data1" ELSE "data0") ELSE Nil,
         polling_result |-> IF i \in S THEN PollSucceed ELSE PollFailed,
         failure_reason |-> IF i \in S THEN Nil ELSE ToPtr([error |-> "fake error", count |-> 1]),
         created_at |-> t - (age + i - 1)]]

OtherDeviceRow(t) ==
  [device_id |-> 2, data |-> ToPtr("data2"), polling_result |-> PollSucceed, failure_reason |-> Nil,
   created_at |-> t]

DiagTypes == DeviceTypes \cup {"sensor"}

DiagRow(deviceType) ==
  [device_type |-> deviceType, polling_status |-> Nil, created_at |-> 0, last_checked_at |-> Nil,
   deleted_at |-> Nil]

InitDiag ==
  /\ now = DiagNow
  /\ \E deviceType \in DiagTypes : devices = [d \in Devices |-> DiagRow(IF d = 1 THEN deviceType ELSE Router)]
  /\ \E n \in 0..MaxHistory : \E S \in SucceedSets(n) : \E age \in DiagAges : \E other \in BOOLEAN :
       polling_history = IF other THEN Append(DiagHistory(n, S, age, now), OtherDeviceRow(now))
                         ELSE DiagHistory(n, S, age, now)
  /\ tasks = [i \in TaskIds |-> FreeTask]
  /\ sched = [p \in Procs |-> [t \in RegisteredTypes |-> [running |-> TRUE, nextTick |-> Now0]]]
  /\ cancelled = [p \in Procs |-> FALSE]
  /\ returned = NoClaim
  /\ leases = [d \in Devices |-> NoLease]
  /\ listing = NoListing
  /\ dbFailures = 0
  /\ diagnostics = NoDiagnostics
  /\ device_types = RegisteredTypes
  /\ worker = [p \in Procs |-> StartedWorker]
  /\ monitor = NoCall
  /\ grpcMonitor = NewGrpcDeviceMonitor

HistoryCheckingSizes == {0, 1, numOfEvidences, defaultHistoryCheckingSize}

NextDiag == \E size \in HistoryCheckingSizes : Diagnose(1, size)

SpecDiag == InitDiag /\ [][NextDiag]_vars

(* The same request served again later: each evaluation reads the clock    *)
(* and the tables as they are when it runs.                                *)
MaxDiagnoses == 2
MaxElapse == 1

DiagnoseAgain(d, size) ==
  /\ diagnostics.seq >= 1
  /\ diagnostics.seq < MaxDiagnoses
  /\ diagnostics' = [seq |-> diagnostics.seq + 1, device_id |-> d, at |-> now, size |-> size,
                     result |-> ToPtr(GetDeviceDiagnostic(d, devices[d], size, now))]
  /\ UNCHANGED <<now, devices, polling_history, tasks, sched, cancelled, returned, leases, listing, dbFailures, device_types, worker, monitor, grpcMonitor>>

Elapse ==
  /\ now < DiagNow + MaxElapse
  /\ now' = now + 1
  /\ UNCHANGED <<devices, polling_history, tasks, sched, cancelled, returned, leases, listing, dbFailures, diagnostics, device_types, worker, monitor, grpcMonitor>>

NextDiagAgain ==
  \/ NextDiag
  \/ \E size \in HistoryCheckingSizes : DiagnoseAgain(1, size)
  \/ Elapse

SpecDiagAgain == InitDiag /\ [][NextDiagAgain]_vars

----------------------------------------------------------------------------
(* The supervisor: PollingWorker.Start of one worker process, from the    *)
(* call to its return, the context it is given and the device_types table *)
(* it reads.                                                               *)

StartError(kind, deviceType) == [kind |-> kind, device_type |-> deviceType]

(* The types for which the loop over the device types returns an error *)
ConfigFailures(w, dts) ==
  {StartError("failed to get polling config", t) : t \in {u \in dts : w.psy[u].err}}
    \cup {StartError("invalid polling config", t) : t \in {u \in dts : ~w.psy[u].err /\ ~Validate(w.psy[u].cfg)}}

(* A variant that runs the go statement for every type a round reads *)
NewTypes_IgnoresMap(w, dts) == dts

(* The types of a round that are not in deviceTypeMap yet *)
NewTypes(w, dts) == dts \ w.deviceTypeMap

(* One go statement for every type of dts *)
GoPerType(launches, dts) == [t \in DOMAIN launches |-> IF t \in dts THEN launches[t] + 1 ELSE launches[t]]

Launch(p, dts) ==
  sched' = [sched EXCEPT ![p] = [t \in DOMAIN sched[p] |->
                                   IF t \in dts THEN [running |-> TRUE, nextTick |-> now + Interval]
                                   ELSE sched[p][t]]]

(* Start up to wg.Wait: the types are read once; the first type without a *)
(* valid config makes Start return before any scheduler is launched; a     *)
(* ticker of a non-positive interval panics.                               *)
StartWorker(p) ==
  /\ worker[p].pc = "new"
  /\ LET w == worker[p]
         dts == device_types
     IN IF dts = {}
        THEN /\ worker' = [worker EXCEPT ![p].pc = "returned", ![p].err = StartError("no device types configured", "")]
             /\ UNCHANGED sched
        ELSE IF ConfigFailures(w, dts) # {}
        THEN /\ \E e \in ConfigFailures(w, dts) : worker' = [worker EXCEPT ![p].pc = "returned", ![p].err = e]
             /\ UNCHANGED sched
        ELSE IF \E t \in dts : w.psy[t].cfg.Interval <= 0
        THEN /\ worker' = [worker EXCEPT ![p].pc = "panicked", ![p].started = dts,
                                         ![p].launches = GoPerType(@, dts),
                                         ![p].err = StartError("non-positive interval for NewTicker", "")]
             /\ UNCHANGED sched
        ELSE /\ worker' = [worker EXCEPT ![p].pc = "waiting", ![p].started = dts,
                                         ![p].launches = GoPerType(@, dts)]
             /\ Launch(p, dts)
  /\ UNCHANGED <<now, devices, polling_history, tasks, cancelled, returned, leases, listing, dbFailures, diagnostics, device_types, monitor, grpcMonitor>>

(* Variant of the return of Start *)
StartReturn_NoWait(p) ==
  /\ worker[p].pc = "waiting"
  /\ cancelled[p]
  /\ worker' = [worker EXCEPT ![p].pc = "returned", ![p].err = StartError("context canceled", "")]
  /\ UNCHANGED <<now, devices, polling_history, tasks, sched, cancelled, returned, leases, listing, dbFailures, diagnostics, device_types, monitor, grpcMonitor>>

(* wg.Wait and return ctx.Err() *)
StartReturn(p) ==
  /\ worker[p].pc = "waiting"
  /\ \A t \in worker[p].started : ~sched[p][t].running
  /\ worker' = [worker EXCEPT ![p].pc = "returned", ![p].err = StartError("context canceled", "")]
  /\ UNCHANGED <<now, devices, polling_history, tasks, sched, cancelled, returned, leases, listing, dbFailures, diagnostics, device_types, monitor, grpcMonitor>>

(* AddDevice creates the type of a device whose type is not in the table *)
CreateDeviceTypes(t) ==
  /\ t \notin device_types
  /\ device_types' = device_types \cup {t}
  /\ UNCHANGED <<now, devices, polling_history, tasks, sched, cancelled, returned, leases, listing, dbFailures, diagnostics, worker, monitor, grpcMonitor>>

InitSupervisor(types, psy) ==
  /\ now = Now0
  /\ devices = [d \in Devices |-> DiagRow(Router)]
  /\ polling_history = <<>>
  /\ tasks = [i \in TaskIds |-> FreeTask]
  /\ sched = [p \in Procs |-> [t \in SupervisedTypes |-> [running |-> FALSE, nextTick |-> Now0]]]
  /\ cancelled = [p \in Procs |-> FALSE]
  /\ returned = NoClaim
  /\ leases = [d \in Devices |-> NoLease]
  /\ listing = NoListing
  /\ dbFailures = 0
  /\ diagnostics = NoDiagnostics
  /\ device_types = types
  /\ worker = [p \in Procs |-> NewPollingWorker(psy)]
  /\ monitor = NoCall
  /\ grpcMonitor = NewGrpcDeviceMonitor

WorkerNext(p) ==
  \/ StartWorker(p)
  \/ \E t \in SupervisedTypes : StopPolling(p, t)
  \/ StartReturn(p)

NextSupervisor ==
  \/ WorkerNext(1)
  \/ Cancel(1)
  \/ \E t \in SupervisedTypes : CreateDeviceTypes(t)
  \/ Advance

(* The worker of the main program: the default strategy, any content of   *)
(* the device_types table.                                                 *)
InitDefault == \E types \in SUBSET SupervisedTypes : InitSupervisor(types, [t \in SupervisedTypes |-> DefaultPollingStrategy(t)])

SpecSupervisor == InitDefault /\ [][NextSupervisor]_vars

FairSupervisor == SpecSupervisor /\ WF_vars(WorkerNext(1))

(* A worker with a strategy of its own for the one type in the table *)
Intervals == {-1, 0, 1, 2}
Timeouts == {0, 9, 10}
BatchSizes == {-1, 0, 1}
BaseDelays == {0, 9, 10, 100}
Factors == {0, 5, 10, 20}
MaxDelays == {0, 99, 100, 101}

Backoffs == {Nil} \cup {ToPtr(BackoffConfig(b, f, m)) : b \in BaseDelays, f \in Factors, m \in MaxDelays}

Configs == {PollingConfig(i, t, n, b) : i \in Intervals, t \in Timeouts, n \in BatchSizes, b \in Backoffs}

InitStrategy == \E cfg \in Configs : InitSupervisor({Router}, testPollingStrategy(Router, cfg))

SpecStrategy == InitStrategy /\ [][NextSupervisor]_vars

----------------------------------------------------------------------------
(* The router scheduler with a monitor that answers every call at once and *)
(* without error (TestMockReliableDevices), seen from tick to tick: a tick *)
(* claims a batch, every claimed device is polled, its succeed row is      *)
(* inserted and the device saved as done, all before the next tick.        *)
(* The claim statement compares stored times with the clock only, so the   *)
(* interval that passes until the next tick is modelled by moving every    *)
(* stored time back by one interval; a time older than both checkpoints of *)
(* the statement stays at 0.  polling_history keeps the newest row of each  *)
(* device: no step of this specification reads an older row.               *)

NumRoundDevices == 4

RoundDevices == {d \in 1..NumRoundDevices : ~IsNil(InnerMonitor(ProtocolsOf(d), 1))}

RoundParam == [DeviceType |-> Router, Interval |-> Interval, OutdatedPeriod |-> Nil, Limit |-> BatchSize]

Back(t) == IF t > Interval THEN t - Interval ELSE 0
BackPtr(ptr) == IF IsNil(ptr) THEN ptr ELSE ToPtr(Back(Deref(ptr)))

(* What pollDeviceWithBackoff saves for a device whose poll succeeded *)
SavedDone(row) == [row EXCEPT !.last_checked_at = ToPtr(now), !.polling_status = ToPtr(PollingDone)]

SucceedRow(d, t) ==
  [device_id |-> d, data |-> ToPtr("data1"), polling_result |-> PollSucceed, failure_reason |-> Nil,
   created_at |-> t]

(* The newest row of every device after a round that polled the devices S *)
RECURSIVE RoundHistory(_, _, _)
RoundHistory(history, S, n) ==
  IF n = 0 THEN <<>>
  ELSE LET rest == RoundHistory(history, S, n - 1)
           old == {k \in DOMAIN history : history[k].device_id = n}
       IN IF n \in S THEN Append(rest, SucceedRow(n, Back(now)))
          ELSE IF old # {} THEN Append(rest, [history[CHOOSE k \in old : TRUE] EXCEPT !.created_at = Back(@)])
          ELSE rest

ReliableRound ==
  /\ sched[1][Router].running
  /\ ~cancelled[1]
  /\ \E S \in ClaimSelections(devices, RoundParam, now) :
       LET claimed == ClaimUpdate(devices, S)
           saved == [d \in DOMAIN devices |-> IF d \in S THEN SavedDone(claimed[d]) ELSE claimed[d]]
       IN /\ returned' = [seq |-> 1, err |-> FALSE, param |-> ToPtr(RoundParam), at |-> now, ids |-> S,
                          rows |-> [d \in S |-> claimed[d]], before |-> devices]
          /\ devices' = [d \in DOMAIN devices |->
                           [saved[d] EXCEPT !.created_at = Back(@), !.last_checked_at = BackPtr(@),
                                            !.deleted_at = BackPtr(@)]]
          /\ polling_history' = RoundHistory(polling_history, S, NumRoundDevices)
  /\ UNCHANGED <<now, tasks, sched, cancelled, leases, listing, dbFailures, diagnostics, device_types, worker, monitor, grpcMonitor>>

(* Routers that were never polled, or were polled 1, 2 or 3 intervals ago *)
(* with success.                                                           *)
RECURSIVE RoundSeed(_, _)
RoundSeed(store, n) ==
  IF n = 0 THEN <<>>
  ELSE IF n \in DOMAIN store /\ ~IsNil(store[n].last_checked_at)
       THEN Append(RoundSeed(store, n - 1), SucceedRow(n, Deref(store[n].last_checked_at)))
       ELSE RoundSeed(store, n - 1)

RoundRows ==
  {[DiagRow(Router) EXCEPT !.polling_status = IF IsNil(at) THEN Nil ELSE ToPtr(PollingDone), !.last_checked_at = at] :
     at \in {Nil} \cup {ToPtr(Now0 - k * Interval) : k \in 1..3}}

InitRounds ==
  /\ now = Now0
  /\ devices \in [RoundDevices -> RoundRows]
  /\ polling_history = RoundSeed(devices, NumRoundDevices)
  /\ tasks = [i \in TaskIds |-> FreeTask]
  /\ sched = [p \in Procs |-> [t \in RegisteredTypes |-> [running |-> TRUE, nextTick |-> Now0]]]
  /\ cancelled = [p \in Procs |-> FALSE]
  /\ returned = NoClaim
  /\ leases = [d \in Devices |-> NoLease]
  /\ listing = NoListing
  /\ dbFailures = 0
  /\ diagnostics = NoDiagnostics
  /\ device_types = RegisteredTypes
  /\ worker = [p \in Procs |-> StartedWorker]
  /\ monitor = NoCall
  /\ grpcMonitor = NewGrpcDeviceMonitor

NextRounds == ReliableRound

SpecRounds == InitRounds /\ [][NextRounds]_vars

(* The ticker fires for as long as the scheduler runs. *)
FairRounds == SpecRounds /\ WF_vars(ReliableRound)

----------------------------------------------------------------------------
(* The workers with the monitor of TestMockUnReliableDevices: it counts    *)
(* the calls made for a device, whichever task makes them, and answers     *)
(* by the count alone.  The database is that of the test, whose writes do  *)
(* not fail.                                                               *)

MaxMockPolls == 6

RECURSIVE CallsUpTo(_, _)
CallsUpTo(d, i) ==
  IF i = 0 THEN 0
  ELSE (IF tasks[i].device_id = d THEN Len(tasks[i].polls) ELSE 0) + CallsUpTo(d, i - 1)

(* The counter of the mock: 1 for the first two calls, then one more for   *)
(* each call.                                                              *)
MockCount(calls) == IF calls = 0 THEN 1 ELSE calls

UnreliablePollDevice(i, budget) ==
  /\ tasks[i].pc = "poll"
  /\ TotalPolls < budget
  /\ LET count == MockCount(CallsUpTo(tasks[i].device_id, MaxTasks))
     IN IF count % 3 = 0 \/ count % 3 = 1
        THEN \E msg \in PollErrors : tasks' = [tasks EXCEPT ![i] = Polled(@, "err", "", msg)]
        ELSE \E resp \in PollDeviceResponses : tasks' = [tasks EXCEPT ![i] = Polled(@, "ok", resp, "")]
  /\ UNCHANGED <<now, devices, polling_history, sched, cancelled, returned, leases, listing, dbFailures, diagnostics, device_types, worker, monitor, grpcMonitor>>

(* The first tick has claimed device 1, registered a moment ago or long    *)
(* ago and never polled, and its retry task has just been started; the     *)
(* other devices are registered and not yet claimed.                       *)
NewRows(d) ==
  {[device_type |-> InitTypeOf(d), polling_status |-> IF d = 1 THEN ToPtr(PollingInProgress) ELSE Nil,
    created_at |-> at, last_checked_at |-> Nil, deleted_at |-> Nil] :
     at \in {Now0 - 1, Now0 - defaultDevicePollingOutdateGap - 1}}

InitUnreliable ==
  /\ now = Now0
  /\ devices \in [Devices -> UNION {NewRows(d) : d \in Devices}]
  /\ \A d \in Devices : devices[d] \in NewRows(d)
  /\ polling_history = <<>>
  /\ tasks = [i \in TaskIds |-> IF i = 1 THEN NewRetry(1, 1, devices[1]) ELSE FreeTask]
  /\ sched = [p \in Procs |-> [t \in RegisteredTypes |-> [running |-> TRUE, nextTick |-> Now0]]]
  /\ cancelled = [p \in Procs |-> FALSE]
  /\ returned = NoClaim
  /\ leases = [d \in Devices |-> NoLease]
  /\ listing = NoListing
  /\ dbFailures = 0
  /\ diagnostics = NoDiagnostics
  /\ device_types = RegisteredTypes
  /\ worker = [p \in Procs |-> StartedWorker]
  /\ monitor = NoCall
  /\ grpcMonitor = NewGrpcDeviceMonitor

NextUnreliable ==
  \/ \E t \in RegisteredTypes : Tick(1, t)
  \/ \E t \in RegisteredTypes : StopPolling(1, t)
  \/ Cancel(1)
  \/ \E i \in TaskIds : UnreliablePollDevice(i, MaxMockPolls)
  \/ \E i \in TaskIds : CreatePollingHistory(i, 0)
  \/ \E i \in TaskIds : UpdateDevice(i, 0)
  \/ \E i \in TaskIds : Retry(i)
  \/ \E i \in TaskIds : StopOnCancel(i, 0)
  \/ Advance

SpecUnreliable == InitUnreliable /\ [][NextUnreliable]_vars

----------------------------------------------------------------------------
(* The transport adapters.  An error value is the nil error, an error     *)
(* made of a message, an error made with %w around another error, or an    *)
(* HTTPResponseError, which carries its cause in a field and has no        *)
(* Unwrap method.                                                          *)

Errorf(msg) == [type |-> "errorString", msg |-> msg]
Wrapf(err, msg) == [type |-> "wrapError", msg |-> msg, wrapped |-> err]
HTTPResponseError(code, cause) == [type |-> "HTTPResponseError", code |-> code, cause |-> cause]

ErrInvalidResponse == Errorf("invalid server response")
ErrEmptyResponseBody == Errorf("empty response body")

(* errors.Is: the error itself or an error it wraps *)
RECURSIVE errorsIs(_, _)
errorsIs(err, target) ==
  \/ err = target
  \/ err.type = "wrapError" /\ errorsIs(err.wrapped, target)

(* errors.As for HTTPResponseError: the first one in the error's chain *)
RECURSIVE errorsAs(_)
errorsAs(err) ==
  IF err.type = "HTTPResponseError" THEN ToPtr(err)
  ELSE IF err.type = "wrapError" THEN errorsAs(err.wrapped)
  ELSE Nil

RECURSIVE IsErr(_, _)
IsErr(err, target) ==
  \/ errorsIs(err, target)
  \/ ~IsNil(errorsAs(err)) /\ IsErr(Deref(errorsAs(err)).cause, target)

FieldNames == {"device_id", "device_type", "hardware_version", "software_version", "firmware_version",
               "status", "checksum"}

(* validation.Required on a string or on a pointer to a string: the value *)
(* behind the pointer is not empty.                                        *)
RequiredString_NotNil(ptr) == ~IsNil(ptr)

RequiredString(ptr) == ~IsNil(ptr) /\ Deref(ptr) # ""

(* PollDeviceRequest.validate *)
validateRequest(req) ==
  IF req.Hostname = "" THEN Errorf("hostname cannot be empty")
  ELSE IF ~IsNil(req.Port) /\ (Deref(req.Port) < 0 \/ Deref(req.Port) > 65535) THEN Errorf("invalid port number")
  ELSE NilError

validateGrpcDeviceDataResp(resp) ==
  IF IsNil(resp) THEN Wrapf(ErrInvalidResponse, "device data is nil")
  ELSE IF \E f \in FieldNames : ~RequiredString(Deref(resp)[f]) THEN Wrapf(ErrInvalidResponse, "cannot be blank")
  ELSE NilError

(* GrpcDeviceMonitor.PollDevice.  The reply is the outcome of the RPC: it  *)
(* failed, or it brought a message (possibly nil) of optional fields.      *)
GrpcPollDevice(req, reply) ==
  IF validateRequest(req) # NilError THEN [resp |-> Nil, err |-> validateRequest(req)]
  ELSE IF reply.kind = "failed" THEN [resp |-> Nil, err |-> Errorf("rpc error")]
  ELSE IF validateGrpcDeviceDataResp(reply.resp) # NilError
  THEN [resp |-> Nil, err |-> validateGrpcDeviceDataResp(reply.resp)]
  ELSE [resp |-> ToPtr([f \in FieldNames |-> Deref(Deref(reply.resp)[f])]), err |-> NilError]

(* util.SendHttpRequest with the JSON decoding schema.  The reply is the   *)
(* failure of the exchange, or a status code and a body: empty, text that  *)
(* is not JSON, or a JSON object, of which the decoded struct is given     *)
(* (a key that is absent decodes to the empty string).                     *)
SendHttpRequest(reply) ==
  IF reply.kind = "failed" THEN [resp |-> Nil, err |-> Errorf("transport error")]
  ELSE IF reply.code < 200 \/ reply.code > 299
  THEN [resp |-> Nil, err |-> HTTPResponseError(reply.code, Errorf("non 2xx response"))]
  ELSE IF reply.body.kind = "empty" THEN [resp |-> Nil, err |-> HTTPResponseError(reply.code, ErrEmptyResponseBody)]
  ELSE IF reply.body.kind = "text"
  THEN [resp |-> Nil, err |-> HTTPResponseError(reply.code, Errorf("failed to json unmarshal response body"))]
  ELSE [resp |-> ToPtr([Code |-> reply.code, DecodedValue |-> reply.body.value]), err |-> NilError]

validateRESTDeviceDataResp(resp) ==
  IF IsNil(resp) THEN Wrapf(ErrInvalidResponse, "device data response is nil")
  ELSE IF \E f \in FieldNames : ~RequiredString(ToPtr(Deref(resp)[f])) THEN Wrapf(ErrInvalidResponse, "cannot be blank")
  ELSE NilError

(* RESTDeviceMonitor.PollDevice *)
RESTPollDevice(req, reply) ==
  IF validateRequest(req) # NilError THEN [resp |-> Nil, err |-> validateRequest(req)]
  ELSE LET sent == SendHttpRequest(reply)
       IN IF sent.err # NilError THEN [resp |-> Nil, err |-> sent.err]
          ELSE LET v == Deref(sent.resp).DecodedValue
               IN IF validateRESTDeviceDataResp(ToPtr(v)) # NilError
                  THEN [resp |-> Nil,
                        err |-> HTTPResponseError(Deref(sent.resp).Code, validateRESTDeviceDataResp(ToPtr(v)))]
                  ELSE [resp |-> ToPtr([f \in FieldNames |-> v[f]]), err |-> NilError]

(* The requests and the replies the adapters are tried on, one call in a  *)
(* run.                                                                    *)
Requests == {[Hostname |-> h, Port |-> port, Path |-> Nil] : h \in {"", "host"}, port \in {Nil, ToPtr(50051), ToPtr(65536)}}

GrpcReplies ==
  {[kind |-> "failed"], [kind |-> "message", resp |-> Nil]}
    \cup {[kind |-> "message", resp |-> ToPtr(m)] : m \in [FieldNames -> {Nil, ToPtr(""), ToPtr("v")}]}

RESTReplies ==
  {[kind |-> "failed"]}
    \cup {[kind |-> "response", code |-> c, body |-> b] :
            c \in {199, 200, 299, 300},
            b \in {[kind |-> "empty"], [kind |-> "text"]}
                    \cup {[kind |-> "json", value |-> v] : v \in [FieldNames -> {"", "v"}]}}

CallGrpc ==
  /\ monitor = NoCall
  /\ grpcMonitor = NewGrpcDeviceMonitor
  /\ \E req \in Requests : \E reply \in GrpcReplies :
       monitor' = [transport |-> GRPC, device |-> Nil, req |-> ToPtr(req), reply |-> ToPtr(reply),
                   resp |-> GrpcPollDevice(req, reply).resp, err |-> GrpcPollDevice(req, reply).err]
  /\ UNCHANGED <<now, devices, polling_history, tasks, sched, cancelled, returned, leases, listing, dbFailures, diagnostics, device_types, worker, grpcMonitor>>

CallREST ==
  /\ monitor = NoCall
  /\ grpcMonitor = NewGrpcDeviceMonitor
  /\ \E req \in Requests : \E reply \in RESTReplies :
       monitor' = [transport |-> REST, device |-> Nil, req |-> ToPtr(req), reply |-> ToPtr(reply),
                   resp |-> RESTPollDevice(req, reply).resp, err |-> RESTPollDevice(req, reply).err]
  /\ UNCHANGED <<now, devices, polling_history, tasks, sched, cancelled, returned, leases, listing, dbFailures, diagnostics, device_types, worker, grpcMonitor>>

NextAdapters == CallGrpc \/ CallREST

SpecAdapters == InitRetry /\ [][NextAdapters]_vars

----------------------------------------------------------------------------
(* PollingWorker.pollDevice on a claimed device: the adapter it hands to   *)
(* the retry engine and the request the engine will poll with, or the      *)
(* error it returns when no protocol of the device is supported.           *)

pollDevice_LastMatch(device) ==
  LET supported == {i \in DOMAIN device.protocols : device.protocols[i] \in {REST, GRPC}}
      last == device.protocols[CHOOSE i \in supported : \A j \in supported : j <= i]
  IN IF supported = {}
     THEN [inner |-> Nil, req |-> Nil, err |-> Errorf("no supported protocol found for device")]
     ELSE [inner |-> ToPtr(last),
           req |-> ToPtr([Hostname |-> device.hostname,
                          Port |-> IF last = REST THEN device.rest_port ELSE device.grpc_port,
                          Path |-> IF last = REST THEN device.rest_path ELSE Nil]),
           err |-> NilError]

pollDevice(device) ==
  LET inner == InnerMonitor(device.protocols, 1)
  IN IF IsNil(inner)
     THEN [inner |-> Nil, req |-> Nil, err |-> Errorf("no supported protocol found for device")]
     ELSE [inner |-> inner,
           req |-> ToPtr([Hostname |-> device.hostname,
                          Port |-> IF Deref(inner) = REST THEN device.rest_port ELSE device.grpc_port,
                          Path |-> IF Deref(inner) = REST THEN device.rest_path ELSE Nil]),
           err |-> NilError]

(* Claimed devices with every list of up to MaxProtocols protocols *)
MaxProtocols == 3

ProtocolLists == UNION {[1..n -> {REST, GRPC, "http"}] : n \in 0..MaxProtocols}

ClaimedDevices ==
  [hostname : {"host"}, protocols : ProtocolLists, rest_port : {Nil, ToPtr(8080)},
   grpc_port : {Nil, ToPtr(50051)}, rest_path : {Nil, ToPtr("/api/v1/device")}]

CallPollDevice ==
  /\ monitor = NoCall
  /\ grpcMonitor = NewGrpcDeviceMonitor
  /\ \E device \in ClaimedDevices :
       monitor' = [NoCall EXCEPT !.transport = IF IsNil(pollDevice(device).inner) THEN ""
                                               ELSE Deref(pollDevice(device).inner),
                                 !.device = ToPtr(device),
                                 !.req = pollDevice(device).req,
                                 !.err = pollDevice(device).err]
  /\ UNCHANGED <<now, devices, polling_history, tasks, sched, cancelled, returned, leases, listing, dbFailures, diagnostics, device_types, worker, grpcMonitor>>

SpecTransport == InitRetry /\ [][CallPollDevice]_vars

----------------------------------------------------------------------------
(* Properties of the claim statement and of the listing query *)

Claimed == returned.seq > 0 /\ ~returned.err
ClaimParam == Deref(returned.param)

(* The claim predicate in two-valued form, on a row as it was before the  *)
(* most recent claim.                                                      *)
NormalDue(row) ==
  /\ (IsNil(row.polling_status) \/ Deref(row.polling_status) # PollingInProgress)
  /\ (IsNil(row.last_checked_at) \/ Deref(row.last_checked_at) < returned.at - ClaimParam.Interval)
StaleLease(row) ==
  ~IsNil(row.last_checked_at) /\ Deref(row.last_checked_at) < returned.at - OutdatedPeriodOf(ClaimParam)
StaleNewcomer(row) ==
  IsNil(row.last_checked_at) /\ row.created_at < returned.at - OutdatedPeriodOf(ClaimParam)
Due(row) ==
  /\ IsNil(row.deleted_at)
  /\ row.device_type = ClaimParam.DeviceType
  /\ (NormalDue(row) \/ StaleLease(row) \/ StaleNewcomer(row))
DueBefore == {d \in Devices : Due(returned.before[d])}

(* C3: a claim returns only rows that are not deleted, of the requested   *)
(* type and satisfying one of the three disjuncts, and it returns          *)
(* min(limit, number of matching rows) of them.                            *)
C3_ClaimPredicate ==
  Claimed => /\ returned.ids \subseteq DueBefore
             /\ Cardinality(returned.ids) = Min(ClaimParam.Limit, Cardinality(DueBefore))

C3_Witness ==
  /\ Claimed
  /\ returned.ids # {}
  /\ DueBefore \ returned.ids # {}

(* C4: when more rows match than the limit, the selected rows are the     *)
(* first in ascending last_checked_at order with NULL first: no matching   *)
(* row left out sorts before a selected row, and a never-checked matching  *)
(* row is never left out while a checked one is selected.                  *)
NullsFirstBefore(a, b) ==
  IF IsNil(b.last_checked_at) THEN FALSE
  ELSE IF IsNil(a.last_checked_at) THEN TRUE
  ELSE Deref(a.last_checked_at) < Deref(b.last_checked_at)

C4_NullsFirstOrder ==
  Claimed => \A s \in returned.ids : \A m \in DueBefore \ returned.ids :
               ~NullsFirstBefore(returned.before[m], returned.before[s])

(* C5, as stated: a claim never returns a device that was in_progress     *)
(* unless its last_checked_at is older than now - outdated_period.         *)
WasInProgress(row) == ~IsNil(row.polling_status) /\ Deref(row.polling_status) = PollingInProgress

C5_InProgressOnlyIfStale ==
  Claimed => \A d \in returned.ids : WasInProgress(returned.before[d]) => StaleLease(returned.before[d])

(* C5, amended: a claim never returns a device that was in_progress       *)
(* unless its last_checked_at is older than now - outdated_period, or its  *)
(* last_checked_at is NULL and its created_at is older than that.          *)
C5_InProgressOnlyIfStaleOrNewcomer ==
  Claimed => \A d \in returned.ids :
               WasInProgress(returned.before[d]) =>
                 StaleLease(returned.before[d]) \/ StaleNewcomer(returned.before[d])

C5_Witness ==
  /\ Claimed
  /\ \E d \in returned.ids : WasInProgress(returned.before[d]) /\ StaleNewcomer(returned.before[d])
  /\ \E d \in Devices \ returned.ids :
       /\ WasInProgress(returned.before[d])
       /\ IsNil(returned.before[d].deleted_at)
       /\ returned.before[d].device_type = ClaimParam.DeviceType

(* C6, as stated: a non-deleted device left in_progress with              *)
(* last_checked_at = now - outdated_period - 1 is returned by a claim for  *)
(* its type, whatever the table holds and whatever limit >= 1.             *)
Orphaned(row) ==
  /\ IsNil(row.deleted_at)
  /\ row.device_type = ClaimParam.DeviceType
  /\ WasInProgress(row)
  /\ row.last_checked_at = ToPtr(returned.at - OutdatedPeriodOf(ClaimParam) - 1)

C6_OrphanReturned ==
  Claimed => \A d \in Devices : Orphaned(returned.before[d]) => d \in returned.ids

(* C6, amended: such a device matches the claim predicate, and is         *)
(* returned whenever no more than limit rows of its type match.            *)
C6_OrphanReturnedWithinLimit ==
  Claimed => \A d \in Devices :
               Orphaned(returned.before[d]) =>
                 /\ d \in DueBefore
                 /\ (Cardinality(DueBefore) <= ClaimParam.Limit => d \in returned.ids)

C6_Witness ==
  /\ Claimed
  /\ Cardinality(DueBefore) = 2
  /\ ClaimParam.Limit = 2
  /\ \E d \in returned.ids : Orphaned(returned.before[d])

(* C7: a soft-deleted device is never returned by a claim, never appears  *)
(* in a page of the listing, and is not counted in the listing's total.    *)
ConditionHolds(condition, row) ==
  IF condition.kind = "none" THEN TRUE
  ELSE IF condition.kind = "atom" THEN AtomHolds(condition.atom, row)
  ELSE AtomHolds(condition.left, row) \/ AtomHolds(condition.right, row)

Range(seq) == {seq[i] : i \in DOMAIN seq}

C7_SoftDeletedExcluded ==
  /\ Claimed => \A d \in returned.ids : IsNil(returned.before[d].deleted_at)
  /\ (listing.seq > 0 /\ ~listing.err) =>
       /\ \A d \in Range(listing.ids) : IsNil(devices[d].deleted_at)
       /\ listing.total = Cardinality({d \in Devices : IsNil(devices[d].deleted_at)
                                                        /\ ConditionHolds(listing.condition, devices[d])})

----------------------------------------------------------------------------
(* Properties of the worker and of the retry engine *)

InFlight(d) == {i \in TaskIds : tasks[i].pc \notin {"free", "returned"} /\ tasks[i].device_id = d}

(* C1: for every device at most one invocation of pollDeviceWithBackoff   *)
(* is in flight, across all schedulers and worker processes.               *)
C1_LeaseSafety == \A d \in Devices : Cardinality(InFlight(d)) <= 1

(* C2: once a claim has returned a device, no other claim returns it      *)
(* before its retry task has persisted an attempt outcome, as long as less *)
(* than outdated_period has elapsed since that claim.                      *)
LeaseHeld(d, t) ==
  /\ ~IsNil(leases[d].at)
  /\ ~leases[d].persisted
  /\ t - Deref(leases[d].at) < defaultDevicePollingOutdateGap

C2_LeaseHolding ==
  [][returned'.seq # returned.seq => \A d \in returned'.ids : ~LeaseHeld(d, now')]_vars

Invocations == {i \in TaskIds : tasks[i].pc # "free"}

(* The invocation's monitor calls are k failures followed by a success. *)
FailsThenSucceeds(task, k) ==
  /\ k + 1 <= Len(task.polls)
  /\ \A j \in 1..k : task.polls[j].outcome = "err"
  /\ task.polls[k + 1].outcome = "ok"

FailedCall(call, poll) ==
  /\ ~IsNil(call.history)
  /\ Deref(call.history).polling_result = PollFailed
  /\ ~IsNil(Deref(call.history).failure_reason)
  /\ Deref(Deref(call.history).failure_reason).error = poll.resp

SucceedCall(call, poll) ==
  /\ ~IsNil(call.history)
  /\ Deref(call.history).polling_result = PollSucceed
  /\ Deref(call.history).data = ToPtr(poll.resp)

(* C8: an invocation in which the monitor fails k times and then succeeds *)
(* makes exactly k+1 monitor calls, k+1 CreatePollingHistory calls (k      *)
(* failed rows carrying the error message, then one succeed row carrying   *)
(* the response) and k+1 UpdateDevice calls (k with in_progress, the last  *)
(* with done), and then returns.                                           *)
C8_RetrySequence ==
  \A i \in Invocations : \A k \in 0..Len(tasks[i].polls) :
    FailsThenSucceeds(tasks[i], k) =>
      LET task == tasks[i] IN
      /\ Len(task.polls) = k + 1
      /\ Len(task.hcalls) <= k + 1
      /\ Len(task.ucalls) <= k + 1
      /\ \A j \in 1..Len(task.hcalls) :
           IF j <= k THEN FailedCall(task.hcalls[j], task.polls[j])
           ELSE SucceedCall(task.hcalls[j], task.polls[j])
      /\ \A j \in 1..Len(task.ucalls) :
           task.ucalls[j].polling_status = ToPtr(IF j <= k THEN PollingInProgress ELSE PollingDone)
      /\ (Len(task.ucalls) = k + 1 <=> task.pc = "returned")
      /\ (task.pc = "returned" => Len(task.hcalls) = k + 1)

C8_Witness ==
  \E i \in Invocations :
    /\ tasks[i].pc = "returned"
    /\ FailsThenSucceeds(tasks[i], 1)

(* C9: every monitor call is followed by exactly one CreatePollingHistory *)
(* call and one UpdateDevice call; unless the CreatePollingHistory call    *)
(* failed, it appends exactly one row, succeed if and only if the monitor  *)
(* returned a response and no error; and the update carries                *)
(* last_checked_at = the time of that attempt, which the stored row shows  *)
(* when the update succeeded.                                              *)
SavedCalls(task) == {j \in 1..Len(task.hcalls) : task.hcalls[j].ok}

AttemptUpdates(task) == {j \in 1..Len(task.ucalls) : task.ucalls[j].step = "attempt"}

C10_NilResponseIsFailure ==
  \A i \in Invocations : \A j \in 1..Len(tasks[i].polls) :
    tasks[i].polls[j].outcome = "nil" =>
      /\ j <= Len(tasks[i].hcalls) =>
           /\ ~IsNil(tasks[i].hcalls[j].history)
           /\ Deref(tasks[i].hcalls[j].history).polling_result = PollFailed
           /\ (tasks[i].hcalls[j].ok \/ dbFailures > 0)
      /\ j <= Len(tasks[i].ucalls) => tasks[i].ucalls[j].polling_status # ToPtr(PollingDone)
      /\ Len(tasks[i].polls) = j

----------------------------------------------------------------------------
(* Properties of the backoff, of cancellation and of the status column *)

RECURSIVE Pow(_, _)
Pow(b, e) == IF e = 0 THEN 1 ELSE b * Pow(b, e - 1)

(* C11: within one invocation the i-th sleep between attempts is a value  *)
(* in [0, min(base_delay * factor^(i-1), max_delay)); the first sleep is   *)
(* less than base_delay.                                                   *)
C11_BackoffLaw ==
  \A i \in Invocations :
    tasks[i].pc = "sleep" =>
      /\ tasks[i].sleep >= 0
      /\ tasks[i].sleep < Min(BaseDelay * Pow(Factor, Len(tasks[i].polls) - 1), MaxDelay)

(* C12: when the cancellation signal has fired while a task sleeps or has *)
(* a call of the monitor under way, the task sets polling_status to        *)
(* cancelled, makes one UpdateDevice call with that status, appends no     *)
(* history row for it and returns; it starts no new call of the monitor,   *)
(* and it does not set the status to done.                                 *)
Signalled(i) == tasks[i].pc # "free" /\ cancelled[tasks[i].proc]

CancelledReturn(i) ==
  /\ tasks'[i].pc = "returned"
  /\ Len(tasks'[i].ucalls) = Len(tasks[i].ucalls) + 1
  /\ tasks'[i].ucalls[Len(tasks'[i].ucalls)].polling_status = ToPtr(PollingCancelled)
  /\ Deref(tasks'[i].device).polling_status = ToPtr(PollingCancelled)
  /\ Len(tasks'[i].hcalls) = Len(tasks[i].hcalls)
  /\ polling_history' = polling_history

C12_Cancellation ==
  [][\A i \in TaskIds :
       /\ (Signalled(i) /\ tasks[i].pc = "sleep" /\ tasks'[i] # tasks[i]) => CancelledReturn(i)
       /\ (Signalled(i) /\ tasks[i].pc = "poll" /\ tasks'[i] # tasks[i]) =>
            Deref(tasks'[i].device).polling_status # ToPtr(PollingDone)]_vars

(* C13: once cancellation is signalled, a retry task finishes at most the *)
(* call of the monitor that is under way and returns: it does not wait for *)
(* the timer of its sleep and starts no further call; and every type       *)
(* scheduler of the process stops ticking.                                 *)
C13_CancellationLatency ==
  [][/\ \A i \in TaskIds : (Signalled(i) /\ tasks[i].pc # "poll") => tasks'[i].pc # "poll"
     /\ \A p \in Procs : \A t \in RegisteredTypes :
          cancelled[p] => /\ sched'[p][t].nextTick = sched[p][t].nextTick
                          /\ (sched'[p][t].running => sched[p][t].running)]_vars

(* C14: in every state a device whose polling_status is done has, as its  *)
(* most recent polling_history row, a row with polling_result = succeed.   *)
HistoryOf(d) == SelectSeq(polling_history, LAMBDA row : row.device_id = d)

C14_DoneHasSucceedRow ==
  \A d \in Devices :
    devices[d].polling_status = ToPtr(PollingDone) =>
      /\ HistoryOf(d) # <<>>
      /\ HistoryOf(d)[Len(HistoryOf(d))].polling_result = PollSucceed

(* C15: the stored polling_status of a device changes only from null,     *)
(* done or cancelled to in_progress by a claim that returns the device,    *)
(* from in_progress to done by a retry task whose attempt succeeded, and   *)
(* from in_progress to cancelled by a retry task that was cancelled before *)
(* any success; a failed attempt leaves it in_progress.                    *)
ByClaim(d) == returned'.seq # returned.seq /\ d \in returned'.ids

BySuccess(d) ==
  \E i \in TaskIds :
    /\ tasks[i].device_id = d /\ tasks[i].pc = "upd" /\ tasks'[i].pc = "returned"
    /\ tasks[i].outcome = "ok"

ByCancellation(d) ==
  \E i \in TaskIds :
    /\ tasks[i].device_id = d /\ tasks[i].pc = "sleep" /\ tasks'[i].pc = "returned"
    /\ \A j \in 1..Len(tasks[i].polls) : tasks[i].polls[j].outcome # "ok"

C15_StatusTransitions ==
  [][\A d \in Devices :
       LET from == devices[d].polling_status
           to == devices'[d].polling_status
       IN from # to =>
            \/ to = ToPtr(PollingInProgress) /\ from \in {Nil, ToPtr(PollingDone), ToPtr(PollingCancelled)}
                  /\ ByClaim(d)
            \/ from = ToPtr(PollingInProgress) /\ to = ToPtr(PollingDone) /\ BySuccess(d)
            \/ from = ToPtr(PollingInProgress) /\ to = ToPtr(PollingCancelled) /\ ByCancellation(d)]_vars

(* C16: in every invocation the count recorded in the failure_reason of   *)
(* the i-th failed attempt is i, also when the RetryWrapperMonitor value   *)
(* has served an earlier invocation.                                       *)
C16_FailureCount ==
  \A i \in Invocations : \A j \in 1..Len(tasks[i].hcalls) :
    tasks[i].polls[j].outcome = "err" =>
      /\ ~IsNil(tasks[i].hcalls[j].history)
      /\ Deref(tasks[i].hcalls[j].history).failure_reason =
           ToPtr([error |-> tasks[i].polls[j].resp, count |-> j])

(* C17: a failed write never ends the retry loop.  Whatever the result of *)
(* CreatePollingHistory, UpdateDevice is called next; whatever the result  *)
(* of the two writes, the task backs off towards a retry after a failed    *)
(* attempt and returns after any other attempt; and the cancelled write    *)
(* is followed by the return whether it succeeded or not.                  *)
C17_PersistenceFailuresTolerated ==
  [][\A i \in TaskIds :
       LET before == tasks[i]
           after == tasks'[i]
       IN after # before =>
            /\ before.pc = "hist" => after.pc = "upd" /\ Len(after.hcalls) = Len(before.hcalls) + 1
            /\ before.pc = "upd" =>
                 /\ Len(after.ucalls) = Len(before.ucalls) + 1
                 /\ after.pc = (IF before.outcome = "err" THEN "sleep" ELSE "returned")
                 /\ before.outcome = "err" => after.failCount = before.failCount + 1
            /\ (before.pc = "sleep" /\ Len(after.ucalls) # Len(before.ucalls)) => after.pc = "returned"]_vars

C17_Witness ==
  \E i \in Invocations :
    /\ Len(tasks[i].polls) = 2
    /\ tasks[i].polls[1].outcome = "err"
    /\ ~tasks[i].hcalls[1].ok
    /\ ~tasks[i].ucalls[1].ok

(* C18: within one invocation the calls are strictly in sequence: the     *)
(* CreatePollingHistory call of an attempt comes after the monitor call    *)
(* has returned, its UpdateDevice call after the CreatePollingHistory call *)
(* has returned, and the next monitor call starts only after both.         *)
C18_AttemptsSerialized ==
  [][\A i \in TaskIds :
       LET task == tasks'[i]
           polled == Len(task.polls)
           inserted == Len(task.hcalls)
           updated == Cardinality(AttemptUpdates(task))
       IN /\ polled - 1 <= updated /\ updated <= inserted /\ inserted <= polled
          /\ task.pc = "upd" => inserted = polled
          /\ (task.pc = "poll" /\ tasks[i].pc # "poll") => inserted = polled /\ updated = polled]_vars

C18_Witness ==
  \E i \in Invocations :
    /\ tasks[i].pc = "poll"
    /\ Len(tasks[i].polls) = 2
    /\ Len(tasks[i].hcalls) = 2
    /\ Cardinality(AttemptUpdates(tasks[i])) = 2

----------------------------------------------------------------------------
(* Properties of the diagnostics *)

Diagnosed == diagnostics.seq > 0 /\ ~Deref(diagnostics.result).err
DiagResult == Deref(diagnostics.result)
DiagRows == {n \in DOMAIN polling_history : polling_history[n].device_id = diagnostics.device_id}
LatestRow ==
  polling_history[CHOOSE n \in DiagRows : \A m \in DiagRows :
                           polling_history[m].created_at <= polling_history[n].created_at]
DiagInterval == GetPollingConfigByDeviceType(devices[diagnostics.device_id].device_type).Interval
OlderThan(row, k) == row.created_at < diagnostics.at - k * DiagInterval

(* C19: with no history the verdict is Unknown without last_checked_at;   *)
(* when the latest row is older than 10 x interval the verdict is Unknown  *)
(* with last_checked_at = the latest row's created_at, whatever the        *)
(* results of the rows.                                                    *)
C19_UnknownRules ==
  Diagnosed =>
    /\ DiagRows = {} => DiagResult.Connectivity = Unknown /\ DiagResult.LastCheckedAt = Nil
    /\ (DiagRows # {} /\ OlderThan(LatestRow, 10)) =>
         DiagResult.Connectivity = Unknown /\ DiagResult.LastCheckedAt = ToPtr(LatestRow.created_at)

C19_Witness ==
  /\ Diagnosed
  /\ Cardinality(DiagRows) >= numOfEvidences
  /\ \A n \in DiagRows : polling_history[n].polling_result = PollFailed
  /\ OlderThan(LatestRow, 10)
  /\ DiagResult.Connectivity = Unknown

(* C20: the verdict is Connected exactly when the history is not empty,   *)
(* the latest row is not older than 10 x interval, its result is succeed   *)
(* and its created_at is later than now - 2 x interval; the verdict then   *)
(* carries the payload of the latest row.                                  *)
C20_ConnectedRule ==
  Diagnosed =>
    /\ DiagResult.Connectivity = Connected <=>
         /\ DiagRows # {}
         /\ ~OlderThan(LatestRow, 10)
         /\ LatestRow.polling_result = PollSucceed
         /\ LatestRow.created_at > diagnostics.at - 2 * DiagInterval
    /\ DiagResult.Connectivity = Connected =>
         /\ DiagResult.Data = FromPtr(LatestRow.data)
         /\ DiagResult.LastCheckedAt = ToPtr(LatestRow.created_at)

C20_Witness ==
  /\ Diagnosed
  /\ DiagResult.Connectivity = Connected
  /\ \E n \in DiagRows : polling_history[n].polling_result = PollFailed

(* The rows handed to the evaluator are the size newest rows of the device; *)
(* the evidence is the numOfEvidences newest of them.                       *)
NewerRows(n) == {m \in DiagRows : polling_history[m].created_at > polling_history[n].created_at}
SuppliedRows == {n \in DiagRows : Cardinality(NewerRows(n)) < diagnostics.size}
EvidenceRows == {n \in SuppliedRows : Cardinality(NewerRows(n)) < 10}
LatestAlive ==
  LatestRow.polling_result = PollSucceed /\ LatestRow.created_at > diagnostics.at - 2 * DiagInterval
AllEvidenceFailed ==
  /\ Cardinality(SuppliedRows) >= 10
  /\ \A n \in EvidenceRows : polling_history[n].polling_result = PollFailed

(* C21: when neither Unknown nor Connected applies, the verdict is         *)
(* Disconnected exactly when the history has at least 10 rows and the 10    *)
(* most recent rows by created_at are all failed, and Connecting otherwise; *)
(* with fewer than 10 rows, or a succeed among the 10 most recent, the      *)
(* verdict is never Disconnected.                                           *)
C21_DisconnectedOrConnecting ==
  Diagnosed =>
    /\ (DiagRows # {} /\ ~OlderThan(LatestRow, 10) /\ ~LatestAlive) =>
         /\ DiagResult.Connectivity = Disconnected <=> AllEvidenceFailed
         /\ DiagResult.Connectivity # Disconnected => DiagResult.Connectivity = Connecting
    /\ ~AllEvidenceFailed => DiagResult.Connectivity # Disconnected

(* Eleven rows stored oldest first, the oldest a succeed, the ten newest failed *)
C21_Witness ==
  /\ Diagnosed
  /\ DiagResult.Connectivity = Disconnected
  /\ Cardinality(DiagRows) > 10
  /\ \E n \in DiagRows : polling_history[n].polling_result = PollSucceed
  /\ polling_history[1].created_at < polling_history[2].created_at

(* C22: every evaluation of a device whose type has a polling config       *)
(* returns one of the four verdicts, and two evaluations of the same       *)
(* device on the same history with the same history size return the same   *)
(* verdict.                                                                *)
C22_Determinism ==
  [][(diagnostics.seq >= 1 /\ diagnostics'.seq = diagnostics.seq + 1) =>
       /\ ~GetPollingConfigByDeviceType(devices[1].device_type).err /\ diagnostics'.size > 0 =>
            /\ ~Deref(diagnostics'.result).err
            /\ Deref(diagnostics'.result).Connectivity \in {Unknown, Connected, Disconnected, Connecting}
       /\ (/\ diagnostics'.device_id = diagnostics.device_id
           /\ diagnostics'.size = diagnostics.size
           /\ devices' = devices
           /\ polling_history' = polling_history) =>
            Deref(diagnostics'.result) = Deref(diagnostics.result)]_vars

----------------------------------------------------------------------------
(* Properties of the supervisor *)

HasConfig(w, t) == ~w.psy[t].err /\ Validate(w.psy[t].cfg)
Starts == worker[1].pc = "new" /\ worker'[1].pc # "new"

(* C23: when the table holds a type without a valid polling config         *)
(* together with types that have one, Start reports an error naming a type *)
(* without config, and the schedulers of the types with a valid config are *)
(* started all the same.                                                   *)
C23_UnknownTypeIsolated ==
  [][(/\ Starts
      /\ \E t \in device_types : ~HasConfig(worker[1], t)
      /\ \E t \in device_types : HasConfig(worker[1], t)) =>
       /\ worker'[1].err.kind \in {"failed to get polling config", "invalid polling config"}
       /\ worker'[1].err.device_type \in {t \in device_types : ~HasConfig(worker[1], t)}
       /\ \A t \in device_types : HasConfig(worker[1], t) => sched'[1][t].running]_vars

(* C24: once Start has been called, every type with a valid polling       *)
(* config that is in the device_types table, whether it was there at the   *)
(* start or appeared later, and whether or not the table was empty at the  *)
(* start, eventually has its scheduler launched, unless the worker is      *)
(* cancelled first.                                                        *)
C24_Discovery ==
  \A t \in DeviceTypes :
    (/\ worker[1].pc # "new"
     /\ t \in device_types
     /\ \A u \in device_types : HasConfig(worker[1], u))
      ~> (t \in worker[1].started \/ cancelled[1])

WithinLimits(pc) ==
  /\ pc.Interval >= 1
  /\ pc.Timeout >= 10
  /\ pc.BatchSize >= 1
  /\ ~IsNil(pc.Backoff)
  /\ Deref(pc.Backoff).BaseDelay >= 10
  /\ Deref(pc.Backoff).MaxDelay >= 100
  /\ Deref(pc.Backoff).Factor >= 10
  /\ Deref(pc.Backoff).BaseDelay < Deref(pc.Backoff).MaxDelay

C26_ConfigValidation ==
  [][(Starts /\ device_types = {Router} /\ ~worker[1].psy[Router].err) =>
       /\ worker'[1].err.kind = "invalid polling config" <=> ~WithinLimits(worker[1].psy[Router].cfg)
       /\ worker'[1].started # {} => WithinLimits(worker[1].psy[Router].cfg)]_vars

----------------------------------------------------------------------------
(* Properties of the scheduler with a reliable monitor *)

(* C27: when every poll succeeds, every registered, non-deleted device is  *)
(* polled again and again for as long as the scheduler of its type runs:   *)
(* at every moment each device is claimed by some later tick.              *)
C27_PolledRepeatedly == \A d \in RoundDevices : []<>(d \in returned.ids)

----------------------------------------------------------------------------
(* Properties of the workers with the unreliable monitor *)

HistoryRows(d) == {n \in DOMAIN polling_history : polling_history[n].device_id = d}
SucceedRows(d) == {n \in HistoryRows(d) : polling_history[n].polling_result = PollSucceed}
WorkerCancelled == cancelled[1]
TasksReturned == \A i \in TaskIds : tasks[i].pc \in {"free", "returned"}

----------------------------------------------------------------------------
(* Properties of the transport adapters *)

AdapterCalled == monitor.transport # ""
Reply == Deref(monitor.reply)
(* The device answered in full: a message of the RPC, or a 2xx response    *)
(* whose body is a JSON object.                                            *)
Answered ==
  IF monitor.transport = GRPC THEN Reply.kind = "message" /\ ~IsNil(Reply.resp)
  ELSE Reply.kind = "response" /\ Reply.code >= 200 /\ Reply.code <= 299 /\ Reply.body.kind = "json"
AnsweredField(f) ==
  IF monitor.transport = GRPC THEN Deref(Reply.resp)[f] ELSE ToPtr(Reply.body.value[f])
AllFieldsPresent == \A f \in FieldNames : ~IsNil(AnsweredField(f)) /\ Deref(AnsweredField(f)) # ""

(* C29: an adapter returns a response or an error, never both and never   *)
(* neither; it returns a response only when the device answered with all   *)
(* seven fields non-empty, and the response carries those fields; a nil    *)
(* RPC message, an empty REST body and a non-2xx status give an error; a   *)
(* missing or empty field gives an error that IsErr recognises as          *)
(* ErrInvalidResponse, directly in the RPC adapter and as the cause of an  *)
(* HTTPResponseError in the REST adapter.                                  *)
C29_ResponseValidation ==
  AdapterCalled =>
    /\ IsNil(monitor.resp) <=> monitor.err # NilError
    /\ ~IsNil(monitor.resp) =>
         /\ Answered
         /\ AllFieldsPresent
         /\ \A f \in FieldNames : Deref(monitor.resp)[f] = Deref(AnsweredField(f))
    /\ validateRequest(Deref(monitor.req)) = NilError /\ Answered /\ ~AllFieldsPresent =>
         /\ IsErr(monitor.err, ErrInvalidResponse)
         /\ IF monitor.transport = GRPC THEN errorsIs(monitor.err, ErrInvalidResponse)
            ELSE /\ ~IsNil(errorsAs(monitor.err))
                 /\ errorsIs(Deref(errorsAs(monitor.err)).cause, ErrInvalidResponse)

C29_Witness ==
  /\ monitor.transport = REST
  /\ Answered
  /\ Reply.body.value["checksum"] = ""
  /\ \A f \in FieldNames \ {"checksum"} : Reply.body.value[f] # ""
  /\ IsNil(monitor.resp)
  /\ monitor.err.type = "HTTPResponseError"

----------------------------------------------------------------------------
(* Properties of the choice of transport *)

Dispatched == ~IsNil(monitor.device)
Protocols == Deref(monitor.device).protocols
Supported == {i \in DOMAIN Protocols : Protocols[i] \in {REST, GRPC}}
FirstSupported == Protocols[CHOOSE i \in Supported : \A j \in Supported : i <= j]

(* C30: the adapter is that of the first protocol of the device that is   *)
(* rest or grpc, whatever comes before or after it in the list; the REST   *)
(* adapter is polled with the device's rest_port and rest_path, the RPC    *)
(* adapter with its grpc_port and no path; a device without such a         *)
(* protocol gets no adapter and an error.                                  *)
C30_TransportSelection ==
  Dispatched =>
    IF Supported = {}
    THEN monitor.transport = "" /\ IsNil(monitor.req) /\ monitor.err # NilError
    ELSE /\ monitor.transport = FirstSupported
         /\ monitor.err = NilError
         /\ Deref(monitor.req).Hostname = Deref(monitor.device).hostname
         /\ FirstSupported = REST =>
              /\ Deref(monitor.req).Port = Deref(monitor.device).rest_port
              /\ Deref(monitor.req).Path = Deref(monitor.device).rest_path
         /\ FirstSupported = GRPC =>
              /\ Deref(monitor.req).Port = Deref(monitor.device).grpc_port
              /\ IsNil(Deref(monitor.req).Path)

C30_Witness ==
  /\ Dispatched
  /\ Protocols = <<"http", GRPC, REST>>
  /\ ~IsNil(Deref(monitor.device).rest_path)
  /\ ~IsNil(Deref(monitor.device).grpc_port)
  /\ monitor.transport = GRPC
  /\ Deref(monitor.req).Port = Deref(monitor.device).grpc_port
  /\ IsNil(Deref(monitor.req).Path)

----------------------------------------------------------------------------
(* Properties of the dispatch of retry tasks *)

InFlightTasks == {i \in TaskIds : tasks[i].pc \in {"poll", "hist", "upd", "sleep"}}
TickDue(p, t) == sched[p][t].running /\ now >= sched[p][t].nextTick
SlotsLeft == returned.seq < MaxClaims /\ Cardinality(FreeTasks) >= BatchSize

(* C31: a scheduler whose tick is due can claim and dispatch whatever the  *)
(* retry tasks of earlier ticks are doing (the model's supply of task      *)
(* slots permitting), and a tick leaves every task that was in flight as   *)
(* it was and starts its own tasks at their first call without running     *)
(* them.                                                                   *)
C31_NonBlockingDispatch ==
  /\ [](\A t \in RegisteredTypes : TickDue(1, t) /\ SlotsLeft => ENABLED Tick(1, t))
  /\ [][returned'.seq # returned.seq =>
          \A i \in TaskIds : \/ tasks'[i] = tasks[i]
                             \/ /\ tasks[i].pc = "free"
                                /\ tasks'[i] = NewRetry(1, tasks'[i].device_id, returned'.rows[tasks'[i].device_id])]_vars

C31_Witness ==
  /\ returned.seq = 1
  /\ \E i, j \in TaskIds :
       /\ tasks[i].device_id \notin returned.ids
       /\ tasks[i].pc = "sleep"
       /\ tasks[i].failCount >= 1
       /\ tasks[j].device_id \in returned.ids
       /\ tasks[j].pc = "poll"
       /\ tasks[j].polls = <<>>

----------------------------------------------------------------------------
(* Frame of the claim statement *)

(* C32: after a claim every returned row is the row as it was before with *)
(* polling_status = in_progress and nothing else changed, the row handed   *)
(* to the caller is that row, and every other row of the table is as it    *)
(* was before.                                                             *)
C32_ClaimFrame ==
  Claimed =>
    \A d \in Devices :
      IF d \in returned.ids
      THEN /\ devices[d] = [returned.before[d] EXCEPT !.polling_status = ToPtr(PollingInProgress)]
           /\ returned.rows[d] = devices[d]
           /\ returned.rows[d].polling_status = ToPtr(PollingInProgress)
      ELSE devices[d] = returned.before[d]

C32_Witness ==
  /\ Claimed
  /\ \E d \in returned.ids : /\ returned.before[d].polling_status = ToPtr(PollingDone)
                              /\ ~IsNil(returned.before[d].last_checked_at)
                              /\ devices[d].last_checked_at = returned.before[d].last_checked_at
  /\ \E d \in Devices \ returned.ids : Due(returned.before[d])


----------------------------------------------------------------------------
(* The delete endpoint beside a retry task in flight.                      *)

(* Router.handleDeleteDevice: GetDeviceByID reads the row whatever its    *)
(* deleted_at, the handler stamps deleted_at and Save writes the row back. *)
(* The requests are those for a device whose retry task is in flight.      *)
handleDeleteDevice(d) ==
  /\ \E i \in TaskIds : tasks[i].device_id = d /\ tasks[i].pc \notin {"free", "returned"}
  /\ devices' = [devices EXCEPT ![d].deleted_at = ToPtr(now)]
  /\ UNCHANGED <<now, polling_history, tasks, sched, cancelled, returned, leases, listing, dbFailures, diagnostics, device_types, worker, monitor, grpcMonitor>>

NextDelete ==
  \/ \E i \in TaskIds : PollDevice(i, MaxPolls)
  \/ \E i \in TaskIds : CreatePollingHistory(i, MaxDbFailures)
  \/ \E i \in TaskIds : UpdateDevice(i, MaxDbFailures)
  \/ \E i \in TaskIds : Retry(i)
  \/ \E i \in TaskIds : StopOnCancel(i, MaxDbFailures)
  \/ \E d \in Devices : handleDeleteDevice(d)
  \/ \E t \in RegisteredTypes : Tick(1, t)
  \/ Cancel(1)
  \/ Advance

SpecDelete == InitRetry /\ [][NextDelete]_vars

(* The step is a write of the device row by a retry task. *)
TaskWrites(i) == Len(tasks'[i].ucalls) > Len(tasks[i].ucalls)

(* C33: an update_device of the retry engine changes only last_checked_at *)
(* and polling_status of the row, so a device soft-deleted while its task  *)
(* is in flight stays soft-deleted after every later write of that task    *)
(* and is not claimed again.                                               *)
C33_RetryUpdateFrame ==
  [][/\ \A i \in TaskIds :
          TaskWrites(i) =>
            \A d \in Devices :
              devices'[d] = [devices[d] EXCEPT !.polling_status = devices'[d].polling_status,
                                               !.last_checked_at = devices'[d].last_checked_at]
     /\ \A d \in Devices : ~IsNil(devices[d].deleted_at) => ~IsNil(devices'[d].deleted_at)
     /\ returned'.seq # returned.seq => \A d \in returned'.ids : IsNil(devices[d].deleted_at)]_vars


----------------------------------------------------------------------------
(* Ticks over a table that holds a device without a supported protocol.    *)

NumOrphanDevices == 3

OrphanDevices == 1..NumOrphanDevices

(* Routers registered a moment ago or long ago and never polled, or polled *)
(* with success more than an interval ago.                                 *)
OrphanRows ==
  {[DiagRow(Router) EXCEPT !.created_at = Now0 - 1],
   [DiagRow(Router) EXCEPT !.created_at = Now0 - defaultDevicePollingOutdateGap - 1],
   [DiagRow(Router) EXCEPT !.polling_status = ToPtr(PollingDone), !.last_checked_at = ToPtr(Now0 - Interval - 1)]}

InitOrphan ==
  /\ now = Now0
  /\ devices \in [OrphanDevices -> OrphanRows]
  /\ polling_history = RoundSeed(devices, NumOrphanDevices)
  /\ tasks = [i \in TaskIds |-> FreeTask]
  /\ sched = [p \in Procs |-> [t \in RegisteredTypes |-> [running |-> TRUE, nextTick |-> Now0]]]
  /\ cancelled = [p \in Procs |-> FALSE]
  /\ returned = NoClaim
  /\ leases = [d \in OrphanDevices |-> NoLease]
  /\ listing = NoListing
  /\ dbFailures = 0
  /\ diagnostics = NoDiagnostics
  /\ device_types = RegisteredTypes
  /\ worker = [p \in Procs |-> StartedWorker]
  /\ monitor = NoCall
  /\ grpcMonitor = NewGrpcDeviceMonitor

NextOrphan ==
  \/ \E p \in Procs : \E t \in RegisteredTypes : Tick(p, t)
  \/ \E i \in TaskIds : PollDevice(i, MaxPolls)
  \/ \E i \in TaskIds : CreatePollingHistory(i, 0)
  \/ \E i \in TaskIds : UpdateDevice(i, 0)
  \/ \E i \in TaskIds : Retry(i)
  \/ Advance

SpecOrphan == InitOrphan /\ [][NextOrphan]_vars

(* A claimed device that is in_progress with no retry task and no history *)
(* row written since its claim.                                            *)
ClaimedWithoutTask(d) ==
  /\ ~IsNil(leases[d].at)
  /\ devices[d].polling_status = ToPtr(PollingInProgress)
  /\ \A i \in TaskIds : tasks[i].device_id # d
  /\ \A n \in DOMAIN polling_history :
       polling_history[n].device_id = d => polling_history[n].created_at < Deref(leases[d].at)

(* C34: no device that a tick claimed is left in_progress without a retry *)
(* task and without a history row, and no tick claims such a device again. *)
C34_NoOrphanedClaim ==
  [][/\ \A d \in DOMAIN devices : ~ClaimedWithoutTask(d)'
     /\ returned'.seq # returned.seq => \A d \in returned'.ids : ~ClaimedWithoutTask(d)]_vars


----------------------------------------------------------------------------
(* Newcomers under repeated ticks.                                         *)

(* A non-deleted device that was never polled. *)
Newcomer(d) ==
  /\ IsNil(devices[d].deleted_at)
  /\ IsNil(devices[d].polling_status)
  /\ IsNil(devices[d].last_checked_at)

(* C35: under repeated ticks of its type scheduler a non-deleted device   *)
(* that was never polled is eventually claimed, also when the batch is     *)
(* smaller than the number of devices of the type and other devices of     *)
(* the type keep becoming due again.                                       *)
C35_NewcomerClaimed == \A d \in RoundDevices : Newcomer(d) ~> (d \in returned.ids)


----------------------------------------------------------------------------
(* One invocation of the retry engine run to its end: the timer of the    *)
(* select fires, the calls of the loop body return.                       *)

(* time.After(sleep): the clock moves towards the wake time of a sleeping *)
(* task.                                                                   *)
TimeAfter(i) ==
  /\ tasks[i].pc = "sleep"
  /\ now < tasks[i].wake
  /\ now' = now + 1
  /\ UNCHANGED <<devices, polling_history, tasks, sched, cancelled, returned, leases, listing, dbFailures, diagnostics, device_types, worker, monitor, grpcMonitor>>

(* The steps of the loop of pollDeviceWithBackoff. *)
LoopStep ==
  \/ \E i \in TaskIds : PollDevice(i, MaxAttempts)
  \/ \E i \in TaskIds : CreatePollingHistory(i, MaxRetryDbFailures)
  \/ \E i \in TaskIds : UpdateDevice(i, MaxRetryDbFailures)
  \/ \E i \in TaskIds : Retry(i)
  \/ \E i \in TaskIds : StopOnCancel(i, MaxRetryDbFailures)

NextTermination ==
  \/ LoopStep
  \/ \E i \in TaskIds : TimeAfter(i)
  \/ Cancel(1)

SpecTermination == InitRetry /\ [][NextTermination]_vars

(* Every call of the loop body returns (the adapter call carries the      *)
(* timeout of the configuration) and the timer of the select fires.        *)
FairTermination ==
  SpecTermination /\ WF_vars(LoopStep) /\ WF_vars(\E i \in TaskIds : TimeAfter(i))

Invocation == tasks[1]
AllAttemptsFailed == \A n \in DOMAIN Invocation.polls : Invocation.polls[n].outcome = "err"
ReturnedOnCancel ==
  /\ cancelled[Invocation.proc]
  /\ Invocation.ucalls # <<>>
  /\ Invocation.ucalls[Len(Invocation.ucalls)].step = "cancel"

(* C36: an invocation of the retry engine returns only after a successful *)
(* attempt, after cancellation or after a nil response with a nil error;   *)
(* while every attempt fails and no cancellation fires it goes on to the   *)
(* next attempt, whatever the number of failures; and when an attempt      *)
(* succeeds and no cancellation fires it returns with the device done.     *)
C36_RetryTermination ==
  /\ [](Invocation.pc = "returned" =>
          \/ Invocation.outcome = "ok"
          \/ Invocation.outcome = "nil"
          \/ ReturnedOnCancel)
  /\ [](AllAttemptsFailed /\ ~cancelled[1] => Invocation.pc # "returned")
  /\ [](/\ Invocation.pc = "sleep" /\ ~cancelled[1] /\ now >= Invocation.wake
        => ENABLED Retry(1) /\ ~ENABLED StopOnCancel(1, MaxRetryDbFailures))
  /\ ([]~cancelled[1] /\ <>(Invocation.outcome = "ok")
        => <>(/\ Invocation.pc = "returned"
              /\ Deref(Invocation.device).polling_status = ToPtr(PollingDone)
              /\ (Invocation.ucalls[Len(Invocation.ucalls)].ok
                    => devices[1].polling_status = ToPtr(PollingDone))))

C36_Witness ==
  /\ Invocation.pc = "returned"
  /\ ~cancelled[1]
  /\ Len(Invocation.polls) = MaxAttempts
  /\ Invocation.failCount = MaxAttempts - 1
  /\ devices[1].polling_status = ToPtr(PollingDone)


----------------------------------------------------------------------------
(* Discovery rounds: the Start that reads the device types again at every *)
(* tick of its own ticker and launches a scheduler for every type it has   *)
(* not seen, beside the Start that reads them once.                        *)

MaxRounds == 3

(* One round of the loop of Start, up to its select.  The rows come in any *)
(* order: a type without a valid config makes Start return after the go    *)
(* statements of the types before it.                                      *)
DiscoverDeviceTypes(p) ==
  /\ worker[p].pc \in {"new", "discovering"}
  /\ Len(worker[p].reads) < MaxRounds
  /\ LET w == worker[p]
         dts == device_types
         new == NewTypes(w, dts)
         bad == {t \in new : w.psy[t].err \/ ~Validate(w.psy[t].cfg)}
     IN IF bad = {}
        THEN /\ worker' = [worker EXCEPT ![p].pc = "discovering",
                                         ![p].deviceTypeMap = @ \cup new,
                                         ![p].started = @ \cup new,
                                         ![p].launches = GoPerType(@, new),
                                         ![p].reads = Append(@, dts)]
             /\ Launch(p, new)
        ELSE \E e \in ConfigFailures(w, new) : \E before \in SUBSET (new \ bad) :
               /\ worker' = [worker EXCEPT ![p].pc = "returned", ![p].err = e,
                                           ![p].deviceTypeMap = @ \cup before \cup {e.device_type},
                                           ![p].started = @ \cup before,
                                           ![p].launches = GoPerType(@, before),
                                           ![p].reads = Append(@, dts)]
               /\ Launch(p, before)
  /\ UNCHANGED <<now, devices, polling_history, tasks, cancelled, returned, leases, listing, dbFailures, diagnostics, device_types, monitor, grpcMonitor>>

(* The ctx.Done case of the select of Start: it returns nil. *)
DiscoveryReturn(p) ==
  /\ worker[p].pc = "discovering"
  /\ cancelled[p]
  /\ worker' = [worker EXCEPT ![p].pc = "returned"]
  /\ UNCHANGED <<now, devices, polling_history, tasks, sched, cancelled, returned, leases, listing, dbFailures, diagnostics, device_types, monitor, grpcMonitor>>

(* A device type is soft-deleted: GetAllDeviceTypes reads the rows where  *)
(* deleted_at is null.                                                     *)
SoftDeleteDeviceType(t) ==
  /\ t \in device_types
  /\ device_types' = device_types \ {t}
  /\ UNCHANGED <<now, devices, polling_history, tasks, sched, cancelled, returned, leases, listing, dbFailures, diagnostics, worker, monitor, grpcMonitor>>

DiscoveryNext(p) ==
  \/ DiscoverDeviceTypes(p)
  \/ \E t \in SupervisedTypes : StopPolling(p, t)
  \/ DiscoveryReturn(p)

NextDiscovery ==
  \/ WorkerNext(1)
  \/ DiscoveryNext(2)
  \/ \E p \in Procs : Cancel(p)
  \/ \E t \in SupervisedTypes : CreateDeviceTypes(t)
  \/ \E t \in SupervisedTypes : SoftDeleteDeviceType(t)

SpecDiscovery == InitDefault /\ [][NextDiscovery]_vars

(* C37: within one worker process no more than one scheduler is ever      *)
(* launched for a device type name, over any number of discovery rounds,   *)
(* also when a type disappears from the table and is restored later.       *)
C37_OneSchedulerPerType ==
  \A p \in Procs : \A t \in SupervisedTypes :
    /\ worker[p].launches[t] <= 1
    /\ sched[p][t].running => worker[p].launches[t] = 1

C37_Witness ==
  /\ Len(worker[2].reads) = MaxRounds
  /\ Router \in worker[2].reads[1]
  /\ Router \notin worker[2].reads[2]
  /\ Router \in worker[2].reads[3]
  /\ worker[2].launches[Router] = 1
  /\ sched[2][Router].running


----------------------------------------------------------------------------
(* The cache of RPC clients: concurrent calls of getGrpcClient.            *)

OtherState == <<now, devices, polling_history, tasks, sched, cancelled, returned, leases, listing, dbFailures,
                diagnostics, device_types, worker, monitor>>

(* A variant without the second lookup under the write lock *)
SecondLookup_Skipped(clientCache, target) == Nil

(* The lookup a caller repeats once it holds the write lock *)
SecondLookup(clientCache, target) == clientCache[target]

(* A goroutine calls getGrpcClient(hostname, port). *)
GetGrpcClient(c, target) ==
  /\ grpcMonitor.callers[c].pc = ""
  /\ grpcMonitor' = [grpcMonitor EXCEPT !.callers[c] = [@ EXCEPT !.pc = "RLock", !.target = target, !.gw = Nil]]
  /\ UNCHANGED OtherState

(* rwLock.RLock and the first lookup: readers share the lock, a writer    *)
(* excludes them.                                                          *)
RLock(c) ==
  LET caller == grpcMonitor.callers[c]
  IN /\ caller.pc = "RLock"
     /\ grpcMonitor.rwLock.writer = 0
     /\ grpcMonitor' = [grpcMonitor EXCEPT !.rwLock.readers = @ \cup {c},
                                           !.callers[c].pc = "RUnlock",
                                           !.callers[c].gw = grpcMonitor.clientCache[caller.target]]
     /\ UNCHANGED OtherState

(* rwLock.RUnlock, and the return of the client the lookup found. *)
RUnlock(c) ==
  LET caller == grpcMonitor.callers[c]
  IN /\ caller.pc = "RUnlock"
     /\ grpcMonitor' =
          IF IsNil(caller.gw)
          THEN [grpcMonitor EXCEPT !.rwLock.readers = @ \ {c}, !.callers[c].pc = "Lock"]
          ELSE [grpcMonitor EXCEPT !.rwLock.readers = @ \ {c},
                                   !.callers[c] = [IdleCaller EXCEPT !.got = caller.gw]]
     /\ UNCHANGED OtherState

(* rwLock.Lock and the second lookup. *)
Lock(c) ==
  LET caller == grpcMonitor.callers[c]
  IN /\ caller.pc = "Lock"
     /\ grpcMonitor.rwLock.writer = 0
     /\ grpcMonitor.rwLock.readers = {}
     /\ grpcMonitor' = [grpcMonitor EXCEPT !.rwLock.writer = c,
                                           !.callers[c].pc = "Locked",
                                           !.callers[c].gw = SecondLookup(grpcMonitor.clientCache, caller.target)]
     /\ UNCHANGED OtherState

(* Under the write lock: the client found by the second lookup is        *)
(* returned; otherwise grpc.NewClient fails and the error is returned, or  *)
(* it makes a client that is stored and returned.  The lock is released.   *)
Unlock(c) ==
  LET caller == grpcMonitor.callers[c]
      target == caller.target
  IN /\ caller.pc = "Locked"
     /\ \/ /\ ~IsNil(caller.gw)
           /\ grpcMonitor' = [grpcMonitor EXCEPT !.rwLock.writer = 0,
                                                 !.callers[c] = [IdleCaller EXCEPT !.got = caller.gw]]
        \/ /\ IsNil(caller.gw)
           /\ grpcMonitor' = [grpcMonitor EXCEPT !.rwLock.writer = 0, !.callers[c] = IdleCaller]
        \/ /\ IsNil(caller.gw)
           /\ LET gw == ToPtr([target |-> target, client |-> grpcMonitor.created[target] + 1])
              IN grpcMonitor' = [grpcMonitor EXCEPT !.rwLock.writer = 0,
                                                    !.created[target] = @ + 1,
                                                    !.clientCache[target] = gw,
                                                    !.callers[c] = [IdleCaller EXCEPT !.got = gw]]
     /\ UNCHANGED OtherState

NextClientCache ==
  \/ \E c \in Callers : \E target \in Targets : GetGrpcClient(c, target)
  \/ \E c \in Callers : RLock(c)
  \/ \E c \in Callers : RUnlock(c)
  \/ \E c \in Callers : Lock(c)
  \/ \E c \in Callers : Unlock(c)

SpecClientCache == InitRetry /\ [][NextClientCache]_vars

(* C38: whatever the interleaving of concurrent getGrpcClient calls, at   *)
(* most one client is created and stored per target, every caller for a    *)
(* target receives the client the cache holds for it, and an entry of the   *)
(* cache is never replaced or removed.                                      *)
C38_ClientCache ==
  /\ [](\A target \in Targets :
          /\ grpcMonitor.created[target] <= 1
          /\ grpcMonitor.created[target] = 0 <=> IsNil(grpcMonitor.clientCache[target]))
  /\ [](\A c \in Callers :
          LET got == grpcMonitor.callers[c].got
          IN ~IsNil(got) => got = grpcMonitor.clientCache[Deref(got).target])
  /\ [][\A target \in Targets :
          ~IsNil(grpcMonitor.clientCache[target])
            => grpcMonitor'.clientCache[target] = grpcMonitor.clientCache[target]]_vars

C38_Witness ==
  \E c1, c2 \in Callers : \E target \in Targets :
    /\ c1 # c2
    /\ grpcMonitor.callers[c1].pc = "Locked"
    /\ grpcMonitor.callers[c1].target = target
    /\ ~IsNil(grpcMonitor.callers[c1].gw)
    /\ grpcMonitor.callers[c2].got = grpcMonitor.clientCache[target]
    /\ ~IsNil(grpcMonitor.callers[c2].got)


----------------------------------------------------------------------------
(* The claim statement called with parameters of every kind.               *)

ParamSeeds ==
  [DeviceType : {"", Router},
   Interval : {-1, 0, Interval},
   OutdatedPeriod : {Nil, ToPtr(-1), ToPtr(0), ToPtr(Interval), ToPtr(defaultDevicePollingOutdateGap)},
   Limit : {-1, 0, 1}]

ClaimWithParameter ==
  /\ returned.seq = 0
  /\ \E param \in ParamSeeds : \E S \in SUBSET Devices : GetDevicesByPollingParameter(param, S)
  /\ UNCHANGED <<now, polling_history, tasks, sched, cancelled, leases, listing, dbFailures, diagnostics, device_types, worker, monitor, grpcMonitor>>

SpecParams == InitStore /\ [][ClaimWithParameter]_vars

(* The parameter of the call is one the claim rejects. *)
Rejected ==
  \/ ClaimParam.DeviceType = ""
  \/ ClaimParam.Interval <= 0
  \/ ClaimParam.Limit <= 0
  \/ ~IsNil(ClaimParam.OutdatedPeriod) /\ Deref(ClaimParam.OutdatedPeriod) <= 0

(* The call did what a call with this outdated_period can do. *)
AsWithOutdatedPeriod(op) ==
  /\ returned.ids \in ClaimSelections(returned.before, [ClaimParam EXCEPT !.OutdatedPeriod = op], returned.at)
  /\ devices = ClaimUpdate(returned.before, returned.ids)

(* C39: a claim with an empty device_type, a non-positive interval, limit *)
(* or outdated_period returns an error and changes no row; any other is    *)
(* carried out, and one with outdated_period absent does what one with     *)
(* the default period can do, and the reverse.                             *)
C39_ClaimParameters ==
  returned.seq > 0 =>
    /\ Rejected => returned.err /\ returned.ids = {} /\ devices = returned.before
    /\ ~Rejected => ~returned.err
    /\ ~Rejected /\ IsNil(ClaimParam.OutdatedPeriod)
         => AsWithOutdatedPeriod(ToPtr(defaultDevicePollingOutdateGap))
    /\ ~Rejected /\ ClaimParam.OutdatedPeriod = ToPtr(defaultDevicePollingOutdateGap)
         => AsWithOutdatedPeriod(Nil)

C39_Witness ==
  /\ Claimed
  /\ IsNil(ClaimParam.OutdatedPeriod)
  /\ \E d \in returned.ids :
       /\ returned.before[d].polling_status = ToPtr(PollingInProgress)
       /\ returned.before[d].last_checked_at = ToPtr(returned.at - defaultDevicePollingOutdateGap - 1)
  /\ \E d \in Devices \ returned.ids :
       /\ returned.before[d].device_type = Router
       /\ IsNil(returned.before[d].deleted_at)
       /\ returned.before[d].polling_status = ToPtr(PollingInProgress)
       /\ returned.before[d].last_checked_at = ToPtr(returned.at - defaultDevicePollingOutdateGap)


----------------------------------------------------------------------------
(* The delay of the retry engine under every backoff config that Validate  *)
(* accepts.  Durations are in milliseconds and the factor in tenths, as in  *)
(* the configs above.                                                       *)

MaxBackoffSteps == 5

(* The backoff configs of the polling configs Validate returns nil for *)
ValidatedBackoffs ==
  {b \in Backoffs : Validate([DefaultPollingStrategy(Router).cfg EXCEPT !.Backoff = b])}

(* The delay after a failed attempt: float64(delay) * Factor, capped at   *)
(* MaxDelay and converted back to a duration.                              *)
NextDelayWith(backoff, delay) ==
  IF delay < backoff.MaxDelay
  THEN Min((delay * backoff.Factor) \div 10, backoff.MaxDelay)
  ELSE backoff.MaxDelay

BackoffOf(i) == Deref(worker[tasks[i].proc].psy[Router].cfg.Backoff)

InitBackoff ==
  /\ now = Now0
  /\ devices \in [Devices -> ClaimedRows]
  /\ polling_history = <<>>
  /\ \E b \in ValidatedBackoffs :
       /\ worker = [p \in Procs |->
                      [StartedWorker EXCEPT !.psy = testPollingStrategy(Router, [DefaultPollingStrategy(Router).cfg EXCEPT !.Backoff = b])]]
       /\ tasks = [i \in TaskIds |->
                     IF i = 1 THEN [NewRetry(1, 1, devices[1]) EXCEPT !.delay = Deref(b).BaseDelay] ELSE FreeTask]
  /\ sched = [p \in Procs |-> [t \in RegisteredTypes |-> [running |-> TRUE, nextTick |-> Now0]]]
  /\ cancelled = [p \in Procs |-> FALSE]
  /\ returned = NoClaim
  /\ leases = [d \in Devices |-> NoLease]
  /\ listing = NoListing
  /\ dbFailures = 0
  /\ diagnostics = NoDiagnostics
  /\ device_types = RegisteredTypes
  /\ monitor = NoCall
  /\ grpcMonitor = NewGrpcDeviceMonitor

(* An attempt that failed, up to the next attempt: the delay is updated,  *)
(* rand.Int63n(delay) draws the sleep, or panics when delay is not         *)
(* positive, and the timer of the select fires.                            *)
FailedAttempt(i) ==
  /\ tasks[i].pc = "poll"
  /\ tasks[i].failCount < MaxBackoffSteps
  /\ LET delay == NextDelayWith(BackoffOf(i), tasks[i].delay)
     IN IF delay <= 0
        THEN tasks' = [tasks EXCEPT ![i].pc = "panicked", ![i].failCount = @ + 1, ![i].delay = delay]
        ELSE \E sleep \in 0..(delay - 1) :
               tasks' = [tasks EXCEPT ![i].failCount = @ + 1, ![i].delay = delay, ![i].sleep = sleep]
  /\ UNCHANGED <<now, devices, polling_history, sched, cancelled, returned, leases, listing, dbFailures, diagnostics, device_types, worker, monitor, grpcMonitor>>

SpecBackoff == InitBackoff /\ [][\E i \in TaskIds : FailedAttempt(i)]_vars

(* C40: with a backoff config that passed validation the delay of an      *)
(* invocation stays between base_delay and max_delay, never decreases      *)
(* from one attempt to the next, stays at max_delay once there, and every  *)
(* sleep drawn is at least 0 and less than max_delay.                      *)
C40_DelayBounds ==
  /\ [](/\ BackoffOf(1).BaseDelay <= Invocation.delay
        /\ Invocation.delay <= BackoffOf(1).MaxDelay)
  /\ [][/\ Invocation'.delay >= Invocation.delay
        /\ Invocation.delay = BackoffOf(1).MaxDelay => Invocation'.delay = BackoffOf(1).MaxDelay
        /\ Invocation'.pc = "poll" => Invocation'.sleep >= 0 /\ Invocation'.sleep < BackoffOf(1).MaxDelay]_vars

====
